---- MODULE Spec2Model ----
(***************************************************************************)
(* Field Data Collection & Sync Tool with Chatbot.                         *)
(*                                                                         *)
(* RecordsView (src/src/components/RecordsView.tsx): the in-memory record  *)
(* collection, the filter criteria and the filtered view derived by        *)
(* applyFilters.                                                           *)
(* Chatbot edge function (src/README.md, Deno.serve handler): the          *)
(* resolution of one chat request, either by the generative-language       *)
(* endpoint or by generateFallbackResponse.                                *)
(*                                                                         *)
(* Text is a sequence of one-character strings, so that toLowerCase and    *)
(* includes work on characters as String.prototype does.  A point in time  *)
(* is a number of milliseconds since 00:00:00 UTC of day 0, as Date's      *)
(* getTime() with the epoch moved to a nearby day.                         *)
(***************************************************************************)
EXTENDS Integers, Sequences, FiniteSets, TLC

VARIABLES
    \* ---- RecordsView component state
    records,          \* useState<FieldRecord[]>([])
    filteredRecords,  \* useState<FieldRecord[]>([])
    filterError,      \* how the last run of applyFilters ended
    loading,          \* useState(true)
    searchTerm,       \* useState('')
    filters,          \* useState<FilterState>({field, location, dateFrom, dateTo})
    \* ---- environment of RecordsView
    table,            \* rows of field_records visible to the signed-in user
    tzOffset,         \* local time minus UTC of the browser, in milliseconds
    \* ---- one invocation of the chatbot edge function
    pc,               \* position of the handler
    request,          \* the request being served
    reply,            \* the Response returned to the caller
    fetchCalls,       \* calls made to the generative-language endpoint for it
    geminiResponse,   \* what the endpoint did with the call
    \* ---- history of the edge function, kept by no code: for the properties
    previous,         \* message and response of an earlier invocation that
                      \* generateFallbackResponse answered
    \* ---- Dashboard component state
    recentRecords,    \* useState<FieldData[]>([])
    dashboardLoading, \* useState(true)
    syncStatus,       \* stats.syncStatus
    fieldData,        \* the data of the query of loadDashboardData, or null
    groupedData,      \* the object built by the reduce of loadDashboardData
    \* ---- environment of Dashboard
    fieldRows,        \* field and value of the rows of field_records, newest first
    \* ---- the exports of Dashboard and RecordsView
    exported,         \* the records the file of the last export was made of
    download,         \* the file the last export offered
    \* ---- App: the view shown, and what the browser console has received
    currentView,      \* useState('dashboard') of AppContent
    consoleErrors,    \* the labels of the console.error calls made
    \* ---- RecordsView.deleteRecord
    deleteOp,         \* position and record of the call of deleteRecord
    recordsViewMessage, \* the error message RecordsView renders
    \* ---- DataCollectionForm component state
    formData,         \* useState<FormData>({ field: '', value: '', location: '' })
    formErrors,       \* useState<FormErrors>({})
    formLoading,      \* useState(false)
    success,          \* useState(false)
    submitOp,         \* position and row of the call of handleSubmit
    \* ---- the store
    activityLogs,     \* rows of activity_logs, oldest first
    \* ---- Chatbot component state
    messages,         \* useState<Message[]>([greeting])
    inputValue,       \* useState('')
    isLoading,        \* useState(false)
    \* ---- environment of Chatbot
    conversation,     \* which mount of Chatbot is on the screen
    chatOps,          \* the calls of sendMessage that have not run to their end
    invoked,          \* calls of supabase.functions.invoke('chatbot') made so far
    chatLogInserts,   \* the inserts into chatbot_logs sendMessage has issued
    chatbotLogs,      \* rows of chatbot_logs, oldest first
    \* ---- history of Chatbot, kept by no code: for the properties
    submitted,        \* what the latest submit event found and did
    callHistory,      \* message and outcome of each call of the resolver made
    \* ---- AuthProvider component state
    user,             \* useState<User | null>(null)
    session,          \* useState<Session | null>(null)
    authLoading,      \* useState(true)
    \* ---- the effect of AuthProvider
    authPc,           \* created, mounted (the effect has run) or unmounted
    isMounted,        \* let isMounted of the effect
    subscription,     \* whether the listener of onAuthStateChange is registered
    initAuth,         \* position of initAuth and the session its getSession read
    \* ---- environment of AuthProvider
    configured,       \* VITE_SUPABASE_URL?.includes('.supabase.co')
    currentSession,   \* the session the auth client holds
    \* ---- history of AuthProvider, kept by no code: for the properties
    notified,         \* number of auth-change notifications and the latest session
    \* ---- AuthForm component state
    isLogin,          \* useState(true)
    authFormData,     \* useState({ email: '', password: '', username: '' })
    authError,        \* useState('')
    authFormLoading,  \* useState(false)
    authSubmit        \* position of the call of handleSubmit, and what it has done

recordsViewVars == <<records, filteredRecords, filterError, loading, searchTerm,
                     filters, table, tzOffset>>
resolverVars == <<pc, request, reply, fetchCalls, geminiResponse>>
\* what the handlers of one component leave alone: the state of the others
dashboardVars == <<recentRecords, dashboardLoading, syncStatus, fieldData, groupedData,
                   fieldRows>>
exportVars == <<exported, download>>
formVars == <<formData, formErrors, formLoading, success, submitOp>>
writeVars == <<currentView, deleteOp, recordsViewMessage, formVars, activityLogs>>
chatbotVars == <<messages, inputValue, isLoading, conversation, chatOps, invoked,
                 chatLogInserts, chatbotLogs, submitted, callHistory>>
authVars == <<user, session, authLoading, authPc, isMounted, subscription, initAuth,
              configured, currentSession, notified>>
authFormVars == <<isLogin, authFormData, authError, authFormLoading, authSubmit>>
outsideLoadRecords == <<resolverVars, previous, dashboardVars, exportVars, writeVars,
                        chatbotVars, authVars, authFormVars>>
outsideRecordsView == <<outsideLoadRecords, consoleErrors>>
outsideResolver == <<recordsViewVars, dashboardVars, exportVars, writeVars, consoleErrors,
                     chatbotVars, authVars, authFormVars>>
outsideDashboard == <<recordsViewVars, resolverVars, previous, exportVars, writeVars,
                      consoleErrors, chatbotVars, authVars, authFormVars>>
outsideExport == <<resolverVars, previous, writeVars, consoleErrors, chatbotVars,
                   authVars, authFormVars>>
outsideWrites == <<resolverVars, previous, dashboardVars, exportVars, chatbotVars,
                   authVars, authFormVars>>
outsideChatbot == <<recordsViewVars, resolverVars, previous, dashboardVars, exportVars,
                    deleteOp, recordsViewMessage, formVars, activityLogs, authVars,
                    authFormVars>>
outsideAuth == <<recordsViewVars, resolverVars, previous, dashboardVars, exportVars,
                 deleteOp, recordsViewMessage, formVars, activityLogs, chatbotVars,
                 authFormVars>>
outsideAuthForm == <<recordsViewVars, resolverVars, previous, dashboardVars, exportVars,
                     writeVars, consoleErrors, chatbotVars>>
vars == <<records, filteredRecords, filterError, loading, searchTerm, filters,
          table, tzOffset, pc, request, reply, fetchCalls, geminiResponse,
          previous, recentRecords, dashboardLoading, syncStatus, fieldData,
          groupedData, fieldRows, exported, download, currentView, consoleErrors,
          deleteOp, recordsViewMessage, formData, formErrors, formLoading, success,
          submitOp, activityLogs, messages, inputValue, isLoading, conversation,
          chatOps, invoked, chatLogInserts, chatbotLogs, submitted, callHistory,
          user, session, authLoading, authPc, isMounted, subscription, initAuth,
          configured, currentSession, notified, isLogin, authFormData, authError,
          authFormLoading, authSubmit>>

----------------------------------------------------------------------------
(* Bounds of the model *)

\* rows of field_records the signed-in user owns when the view mounts
MaxRecords == 3
\* words a chat message is made of
MaxWords == 2
\* words of a chat message where invocations are compared with earlier ones
MaxRepeatWords == 1
\* rows of field_records when the dashboard loads
MaxFieldRows == 6
\* rows of field_records when an export is made
MaxExportRows == 2
\* rows of field_records when the records view or the form is opened
MaxStoredRows == 2
\* rows the form adds to field_records
MaxInserts == 1
\* submit events of the chat form
MaxSubmits == 3
\* times the chat view is opened
MaxConversations == 2
\* auth-change notifications the listener of AuthProvider receives
MaxNotifications == 3
\* submit events of the AuthForm
MaxAuthSubmits == 2

----------------------------------------------------------------------------
(* Text: String.prototype.toLowerCase and String.prototype.includes *)

UpperCaseLetters == <<"A","B","C","D","E","F","G","H","I","J","K","L","M",
                      "N","O","P","Q","R","S","T","U","V","W","X","Y","Z">>
LowerCaseLetters == <<"a","b","c","d","e","f","g","h","i","j","k","l","m",
                      "n","o","p","q","r","s","t","u","v","w","x","y","z">>

\* the lower-case letter of each upper-case letter
LowerOf ==
    [c \in { UpperCaseLetters[i] : i \in 1..26 } |->
        LowerCaseLetters[CHOOSE i \in 1..26 : UpperCaseLetters[i] = c]]

ToLowerChar(c) == IF c \in DOMAIN LowerOf THEN LowerOf[c] ELSE c

toLowerCase(s) == [i \in 1..Len(s) |-> ToLowerChar(s[i])]

\* s.includes(t): t occurs in s as a contiguous run; the empty text occurs everywhere
includes(s, t) ==
    \E i \in 0..(Len(s) - Len(t)) : SubSeq(s, i + 1, i + Len(t)) = t

\* JavaScript truthiness of a string: only '' is falsy
Truthy(s) == Len(s) > 0

----------------------------------------------------------------------------
(* Time: Date objects as the filter builds them *)

MsPerDay == 24 * 60 * 60 * 1000

\* the instant hh:mm:ss UTC of day d
At(d, hh, mm, ss) == d * MsPerDay + ((hh * 60 + mm) * 60 + ss) * 1000

\* A Date object: a time value, or Invalid Date (time value NaN)
InvalidDate == [valid |-> FALSE, time |-> 0]
ValidDate(t) == [valid |-> TRUE, time |-> t]

\* The value of an <input type="date">: '', a date 'YYYY-MM-DD' (its day number),
\* or text that is no date (a browser without date inputs, a year of five digits)
EmptyDate == [kind |-> "empty", day |-> 0]
MalformedDate == [kind |-> "malformed", day |-> 0]
DateString(d) == [kind |-> "date", day |-> d]

\* JavaScript truthiness of the input's value
TruthyDate(s) == s.kind # "empty"

\* new Date(record.timestamp): the store returns timestamptz as ISO text with its
\* offset, which denotes one instant whatever the browser's time zone
NewDateOfTimestamp(ts) == ValidDate(ts)

\* new Date('YYYY-MM-DD'): a date-only form is read as UTC midnight
NewDateOfDateOnly(s) ==
    IF s.kind = "date" THEN ValidDate(s.day * MsPerDay) ELSE InvalidDate

\* new Date('YYYY-MM-DD' + 'T23:59:59'): a date-time form without offset is read
\* as local time, so its instant is the wall-clock time minus the zone's offset
NewDateOfEndOfDay(s, tz) ==
    IF s.kind = "date"
    THEN ValidDate(s.day * MsPerDay + At(0, 23, 59, 59) - tz)
    ELSE InvalidDate

\* a >= b and a <= b on Date objects compare the time values; with NaN both are false
DateGE(a, b) == a.valid /\ b.valid /\ a.time >= b.time
DateLE(a, b) == a.valid /\ b.valid /\ a.time <= b.time

----------------------------------------------------------------------------
(* RecordsView: the steps of applyFilters *)

\* TextSearch with the three tests run as three filters, their results appended
TextSearchConcat(recs, term) ==
    IF Truthy(term)
    THEN SelectSeq(recs, LAMBDA r : includes(toLowerCase(r.field), toLowerCase(term)))
         \o SelectSeq(recs, LAMBDA r : includes(toLowerCase(r.value), toLowerCase(term)))
         \o SelectSeq(recs, LAMBDA r : includes(toLowerCase(r.location), toLowerCase(term)))
    ELSE recs

\* filtered.filter(record => field/value/location includes searchTerm), lines 59-65
TextSearch(recs, term) ==
    IF Truthy(term)
    THEN SelectSeq(recs, LAMBDA r :
            \/ includes(toLowerCase(r.field), toLowerCase(term))
            \/ includes(toLowerCase(r.value), toLowerCase(term))
            \/ includes(toLowerCase(r.location), toLowerCase(term)))
    ELSE recs

\* FieldFilter without record.field.toLowerCase()
FieldFilterCaseSensitive(recs, f) ==
    IF Truthy(f)
    THEN SelectSeq(recs, LAMBDA r : includes(r.field, toLowerCase(f)))
    ELSE recs

\* lines 68-72
FieldFilter(recs, f) ==
    IF Truthy(f)
    THEN SelectSeq(recs, LAMBDA r : includes(toLowerCase(r.field), toLowerCase(f)))
    ELSE recs

\* lines 75-79
LocationFilter(recs, l) ==
    IF Truthy(l)
    THEN SelectSeq(recs, LAMBDA r : includes(toLowerCase(r.location), toLowerCase(l)))
    ELSE recs

\* DateFromFilter without the test if (filters.dateFrom)
DateFromFilterUnguarded(recs, dateFrom) ==
    SelectSeq(recs, LAMBDA r :
        DateGE(NewDateOfTimestamp(r.timestamp), NewDateOfDateOnly(dateFrom)))

\* lines 82-86
DateFromFilter(recs, dateFrom) ==
    IF TruthyDate(dateFrom)
    THEN SelectSeq(recs, LAMBDA r :
            DateGE(NewDateOfTimestamp(r.timestamp), NewDateOfDateOnly(dateFrom)))
    ELSE recs

\* DateToFilter without + 'T23:59:59'
DateToFilterMidnight(recs, dateTo, tz) ==
    IF TruthyDate(dateTo)
    THEN SelectSeq(recs, LAMBDA r :
            DateLE(NewDateOfTimestamp(r.timestamp), NewDateOfDateOnly(dateTo)))
    ELSE recs

\* lines 88-92
DateToFilter(recs, dateTo, tz) ==
    IF TruthyDate(dateTo)
    THEN SelectSeq(recs, LAMBDA r :
            DateLE(NewDateOfTimestamp(r.timestamp), NewDateOfEndOfDay(dateTo, tz)))
    ELSE recs

\* The value applyFilters hands to setFilteredRecords
applyFilters(recs, term, f, tz) ==
    DateToFilter(
        DateFromFilter(
            LocationFilter(
                FieldFilter(
                    TextSearch(recs, term),
                    f.field),
                f.location),
            f.dateFrom),
        f.dateTo, tz)

\* The error applyFilters ends with: it holds no throw, and neither new Date(...)
\* nor a comparison with Invalid Date throws, so it always completes
applyFiltersError(f) == "none"

----------------------------------------------------------------------------
(* RecordsView: the rows and the criteria the model draws from *)

Temp == <<"T","e","m","p">>
pH == <<"p","H">>
Twenty == <<"2","0">>
Seven == <<"7">>
PlotA == <<"P","l","o","t"," ","A">>
North == <<"n","o","r","t","h">>

Row(id, field, value, location, timestamp) ==
    [id |-> id, field |-> field, value |-> value, location |-> location,
     timestamp |-> timestamp]

\* Rows of field_records: instants around the end of day 2 in UTC (r1, r2) and in
\* UTC-5 (r3 in its last whole second, r4), around UTC midnight of day 2 (r5, r6),
\* and a row of the same instant as r1 (r7)
RowPool ==
    { Row("r1", Temp, Twenty, PlotA, At(2, 23, 59, 0)),
      Row("r2", pH,   Seven,  North, At(3, 0, 0, 1)),
      Row("r3", Temp, Seven,  North, At(3, 4, 59, 59)),
      Row("r4", pH,   Twenty, PlotA, At(3, 5, 0, 1)),
      Row("r5", Temp, Seven,  PlotA, At(2, 0, 0, 0)),
      Row("r6", pH,   Twenty, North, At(1, 23, 59, 59)),
      Row("r7", pH,   Seven,  North, At(2, 23, 59, 0)) }

\* local time minus UTC: UTC-5, UTC, UTC+2
TzOffsets == { -5 * 60 * 60 * 1000, 0, 2 * 60 * 60 * 1000 }

SearchTerms == { <<>>, <<"H">>, <<"7">> }
FieldFilters == { <<>>, <<"p","h">> }
LocationFilters == { <<>>, <<"N","o","r">> }
DateInputs == { EmptyDate, DateString(2), MalformedDate }

EmptyFilters ==
    [field |-> <<>>, location |-> <<>>, dateFrom |-> EmptyDate, dateTo |-> EmptyDate]

\* .order('timestamp', { ascending: false }): the rows newest first, rows of one
\* instant in an order the store chooses
NewestFirst(rows) ==
    { s \in [1..Cardinality(rows) -> rows] :
        /\ \A i, j \in DOMAIN s : i # j => s[i] # s[j]
        /\ \A i, j \in DOMAIN s : i < j => s[i].timestamp >= s[j].timestamp }

----------------------------------------------------------------------------
(* RecordsView: the handlers, each with the applyFilters effect its state
   change triggers (useEffect on [records, searchTerm, filters]) *)

\* the state of the component when it mounts, lines 18-28
RecordsViewMounted ==
    /\ records = <<>>
    /\ filteredRecords = <<>>
    /\ filterError = "none"
    /\ loading = TRUE
    /\ searchTerm = <<>>
    /\ filters = EmptyFilters

RecordsViewInit ==
    /\ RecordsViewMounted
    /\ table \in { t \in SUBSET RowPool : Cardinality(t) <= MaxRecords }
    /\ tzOffset \in TzOffsets

\* the dependencies of the effect, were records left out of them
effectDependenciesCriteriaOnly(recs, term, f) == <<term, f>>

\* the dependencies of the effect of lines 34-36: [records, searchTerm, filters]
effectDependencies(recs, term, f) == <<recs, term, f>>

\* useEffect(() => { applyFilters() }, [records, searchTerm, filters]): applyFilters
\* runs after a render in which a dependency has changed
ApplyFiltersEffect ==
    IF effectDependencies(records', searchTerm', filters')
          # effectDependencies(records, searchTerm, filters)
    THEN /\ filteredRecords' = applyFilters(records', searchTerm', filters', tzOffset)
         /\ filterError' = applyFiltersError(filters')
    ELSE UNCHANGED <<filteredRecords, filterError>>

\* console.error('Error loading records:', error), line 50
ErrorLoadingRecords == "Error loading records:"

\* loadRecords: the select succeeds with the rows, or fails and is only logged
LoadRecords ==
    /\ \/ \E data \in NewestFirst(table) :
             /\ records' = data
             /\ UNCHANGED consoleErrors
       \/ /\ records' = records
          /\ consoleErrors' = consoleErrors \cup {ErrorLoadingRecords}
    /\ loading' = FALSE
    /\ UNCHANGED <<searchTerm, filters, table, tzOffset>>
    /\ ApplyFiltersEffect
    /\ UNCHANGED outsideLoadRecords

\* onChange of the search bar
SetSearchTerm(t) ==
    /\ ~loading
    /\ searchTerm' = t
    /\ UNCHANGED <<records, loading, filters, table, tzOffset>>
    /\ ApplyFiltersEffect
    /\ UNCHANGED outsideRecordsView

\* onChange of the four filter inputs
SetFilterField(f) ==
    /\ ~loading
    /\ filters' = [filters EXCEPT !.field = f]
    /\ UNCHANGED <<records, loading, searchTerm, table, tzOffset>>
    /\ ApplyFiltersEffect
    /\ UNCHANGED outsideRecordsView

SetFilterLocation(l) ==
    /\ ~loading
    /\ filters' = [filters EXCEPT !.location = l]
    /\ UNCHANGED <<records, loading, searchTerm, table, tzOffset>>
    /\ ApplyFiltersEffect
    /\ UNCHANGED outsideRecordsView

SetFilterDateFrom(d) ==
    /\ ~loading
    /\ filters' = [filters EXCEPT !.dateFrom = d]
    /\ UNCHANGED <<records, loading, searchTerm, table, tzOffset>>
    /\ ApplyFiltersEffect
    /\ UNCHANGED outsideRecordsView

SetFilterDateTo(d) ==
    /\ ~loading
    /\ filters' = [filters EXCEPT !.dateTo = d]
    /\ UNCHANGED <<records, loading, searchTerm, table, tzOffset>>
    /\ ApplyFiltersEffect
    /\ UNCHANGED outsideRecordsView

clearFilters ==
    /\ ~loading
    /\ filters' = EmptyFilters
    /\ searchTerm' = <<>>
    /\ UNCHANGED <<records, loading, table, tzOffset>>
    /\ ApplyFiltersEffect
    /\ UNCHANGED outsideRecordsView

----------------------------------------------------------------------------
(* Chatbot edge function: generateFallbackResponse *)

TemperatureResponse == "For temperature measurements, ensure your sensors are calibrated and protected from direct sunlight."
HumidityResponse == "Humidity levels are crucial for crop health."
SoilResponse == "Soil pH affects nutrient availability."
DataResponse == "Consistent data collection is key to successful field management."
HelpResponse == "I'm here to help with your field data questions!"
GenericResponse == "Thank you for your question! I can provide general guidance on field data practices."

kwTemperature == <<"t","e","m","p","e","r","a","t","u","r","e">>
kwHumidity == <<"h","u","m","i","d","i","t","y">>
kwSoil == <<"s","o","i","l">>
kwPh == <<"p","h">>
kwData == <<"d","a","t","a">>
kwRecord == <<"r","e","c","o","r","d">>
kwHelp == <<"h","e","l","p">>
kwHow == <<"h","o","w">>

\* generateFallbackResponse with the humidity test before the temperature test
generateFallbackResponseHumidityFirst(message) ==
    LET lowerMessage == toLowerCase(message) IN
    IF includes(lowerMessage, kwHumidity) THEN HumidityResponse
    ELSE IF includes(lowerMessage, kwTemperature) THEN TemperatureResponse
    ELSE IF includes(lowerMessage, kwSoil) \/ includes(lowerMessage, kwPh) THEN SoilResponse
    ELSE IF includes(lowerMessage, kwData) \/ includes(lowerMessage, kwRecord) THEN DataResponse
    ELSE IF includes(lowerMessage, kwHelp) \/ includes(lowerMessage, kwHow) THEN HelpResponse
    ELSE GenericResponse

generateFallbackResponse(message) ==
    LET lowerMessage == toLowerCase(message) IN
    IF includes(lowerMessage, kwTemperature) THEN TemperatureResponse
    ELSE IF includes(lowerMessage, kwHumidity) THEN HumidityResponse
    ELSE IF includes(lowerMessage, kwSoil) \/ includes(lowerMessage, kwPh) THEN SoilResponse
    ELSE IF includes(lowerMessage, kwData) \/ includes(lowerMessage, kwRecord) THEN DataResponse
    ELSE IF includes(lowerMessage, kwHelp) \/ includes(lowerMessage, kwHow) THEN HelpResponse
    ELSE GenericResponse

----------------------------------------------------------------------------
(* Chatbot edge function: the requests and the endpoint's behaviours the model
   draws from *)

\* Words of chat messages: the keywords in several letter cases, keywords inside
\* longer words ("graph", "show") and a word that holds none
Vocabulary ==
    { <<"T","e","m","p","e","r","a","t","u","r","e">>,
      <<"H","U","M","I","D","I","T","Y">>,
      <<"s","o","i","l">>,
      <<"p","H","?">>,
      <<"D","a","t","a">>,
      <<"r","e","c","o","r","d">>,
      <<"H","E","L","P">>,
      <<"h","o","w">>,
      <<"g","r","a","p","h">>,
      <<"s","h","o","w">>,
      <<"h","e","l","l","o">> }

RECURSIVE Sentences(_)
\* the texts of n words or fewer, the words joined by one space
Sentences(n) ==
    IF n = 0 THEN { <<>> }
    ELSE LET shorter == Sentences(n - 1) IN
         shorter \cup Vocabulary
                 \cup { s \o <<" ">> \o w : s \in shorter \ { <<>> }, w \in Vocabulary }

Messages == Sentences(MaxWords)

\* A property of the request's JSON body: absent (undefined) or a string
Absent == [present |-> FALSE, value |-> <<>>]
Given(v) == [present |-> TRUE, value |-> v]

\* !x for such a property: undefined and '' are falsy
Falsy(x) == ~x.present \/ Len(x.value) = 0

UserIds == { <<"u","1">> }
ApiKeys == { <<"k","e","y">> }

\* The requests: a CORS preflight, a body that is no JSON, and the JSON bodies
Requests ==
    { [method |-> "OPTIONS", json |-> FALSE, message |-> Absent, user_id |-> Absent,
       apiKey |-> Absent],
      [method |-> "POST", json |-> FALSE, message |-> Absent, user_id |-> Absent,
       apiKey |-> Absent] }
    \cup [ method : {"POST"}, json : {TRUE},
           message : {Absent} \cup { Given(m) : m \in Messages },
           user_id : {Absent, Given(<<>>)} \cup { Given(u) : u \in UserIds },
           apiKey : {Absent, Given(<<>>)} \cup { Given(k) : k \in ApiKeys } ]

NoRequest ==
    [method |-> "none", json |-> FALSE, message |-> Absent, user_id |-> Absent,
     apiKey |-> Absent]

\* Texts the endpoint's candidates carry
CandidateTexts == { "", "Calibrate the probe weekly.", "Sample at dawn." }

\* What fetch and the reading of the body come to:
\*   settled  FALSE: fetch rejects (network failure)
\*   ok       geminiResponse.ok, a 2xx status
\*   bodyRead FALSE: reading the body (text() or json()) rejects, the connection
\*            being lost after the status line
\*   json     "invalid": the body is no JSON; "null": the body is the JSON null;
\*            "object": the body is a JSON object
\*   candidates  the texts candidates[i].content.parts[0].text of a JSON object,
\*            none when the object has no candidates
NoGeminiResponse ==
    [settled |-> FALSE, ok |-> FALSE, bodyRead |-> FALSE, json |-> "invalid",
     candidates |-> <<>>]

GeminiResponses ==
    { NoGeminiResponse }
    \cup [ settled : {TRUE}, ok : {FALSE}, bodyRead : BOOLEAN, json : {"invalid"},
           candidates : { <<>> } ]
    \cup [ settled : {TRUE}, ok : {TRUE}, bodyRead : {FALSE}, json : {"invalid"},
           candidates : { <<>> } ]
    \cup [ settled : {TRUE}, ok : {TRUE}, bodyRead : {TRUE}, json : {"invalid", "null"},
           candidates : { <<>> } ]
    \cup [ settled : {TRUE}, ok : {TRUE}, bodyRead : {TRUE}, json : {"object"},
           candidates : { <<>> } \cup { <<a>> : a \in CandidateTexts }
                        \cup { <<a, b>> : a \in CandidateTexts, b \in CandidateTexts } ]

----------------------------------------------------------------------------
(* Chatbot edge function: the Deno.serve handler *)

None == "(none)"
NoReply == [status |-> 0, error |-> None, response |-> None]

NoCandidateApology == "I apologize, but I encountered an error processing your request."
CatchApology == "I apologize, but I'm having trouble connecting right now. Please try again later."

\* new Response(null, { status: 200 }) of the preflight branch, lines 87-92
PreflightReply == [status |-> 200, error |-> None, response |-> None]
\* lines 98-104
MissingFieldsReply == [status |-> 400, error |-> "Missing required fields", response |-> None]
\* the catch block, lines 165-177
CatchReply ==
    [status |-> 500, error |-> "An error occurred while processing your request",
     response |-> CatchApology]
\* FallbackReply by a handler that remembers the messages it has answered and
\* gives the generic response to one it has seen before
FallbackReplyToRepeat(message) ==
    IF previous.message = message
    THEN [status |-> 200, error |-> None, response |-> GenericResponse]
    ELSE [status |-> 200, error |-> None,
          response |-> generateFallbackResponse(message)]

\* lines 109-115 and 145-151
FallbackReply(message) ==
    [status |-> 200, error |-> None, response |-> generateFallbackResponse(message)]
\* lines 157-163
AiReply(aiResponse) == [status |-> 200, error |-> None, response |-> aiResponse]

\* a || b on strings
OrElse(a, b) == IF a # "" THEN a ELSE b

\* aiResponseOf reading the last candidate instead of candidates[0]
aiResponseOfLastCandidate(g) ==
    OrElse(IF Len(g.candidates) > 0 THEN g.candidates[Len(g.candidates)] ELSE "",
           NoCandidateApology)

\* geminiData.candidates?.[0]?.content?.parts?.[0]?.text || '...', line 155
aiResponseOf(g) ==
    OrElse(IF Len(g.candidates) > 0 THEN g.candidates[1] ELSE "", NoCandidateApology)

\* ReplyBeforeFetch with the test of apiKey (line 107) ahead of the test of message
\* and user_id (line 97)
ReplyBeforeFetchCredentialFirst(req) ==
    IF req.method = "OPTIONS" THEN PreflightReply
    ELSE IF ~req.json THEN CatchReply
    ELSE IF Falsy(req.apiKey) THEN FallbackReply(req.message.value)
    ELSE IF Falsy(req.message) \/ Falsy(req.user_id) THEN MissingFieldsReply
    ELSE FallbackReply(req.message.value)

\* CallsEndpoint with apiKey tested against undefined only
CallsEndpointWithEmptyKey(req) ==
    /\ req.method # "OPTIONS"
    /\ req.json
    /\ ~(Falsy(req.message) \/ Falsy(req.user_id))
    /\ req.apiKey.present

\* The handler reaches the fetch of line 118: the body is JSON, message and user_id
\* are truthy (line 97) and so is apiKey (line 107)
CallsEndpoint(req) ==
    /\ req.method # "OPTIONS"
    /\ req.json
    /\ ~(Falsy(req.message) \/ Falsy(req.user_id))
    /\ ~Falsy(req.apiKey)

\* The Response of a request the handler answers before line 118
ReplyBeforeFetch(req) ==
    IF req.method = "OPTIONS" THEN PreflightReply
    ELSE IF ~req.json THEN CatchReply
    ELSE IF Falsy(req.message) \/ Falsy(req.user_id) THEN MissingFieldsReply
    ELSE FallbackReply(req.message.value)

\* ReplyAfterFetch with a non-2xx status thrown to the catch block
ReplyAfterFetchThrowsOnStatus(req, g) ==
    IF ~g.settled THEN CatchReply
    ELSE IF ~g.ok THEN CatchReply
    ELSE IF ~g.bodyRead \/ g.json = "invalid" THEN CatchReply
    ELSE IF g.json = "null" THEN CatchReply
    ELSE AiReply(aiResponseOf(g))

\* The Response once the fetch of line 118 has settled, lines 140-177
ReplyAfterFetch(req, g) ==
    IF ~g.settled THEN CatchReply
    ELSE IF ~g.ok
         THEN IF ~g.bodyRead THEN CatchReply
              ELSE FallbackReply(req.message.value)
    ELSE IF ~g.bodyRead \/ g.json = "invalid" THEN CatchReply
    ELSE IF g.json = "null" THEN CatchReply
    ELSE AiReply(aiResponseOf(g))

\* no earlier invocation is remembered
NoPrevious == [message |-> <<"(none)">>, response |-> None]

ResolverInit ==
    /\ pc = "idle"
    /\ request = NoRequest
    /\ reply = NoReply
    /\ fetchCalls = 0
    /\ geminiResponse = NoGeminiResponse
    /\ previous = NoPrevious

\* An invocation starts and runs up to its Response or to the await of fetch
Receive(req) ==
    /\ pc = "idle"
    /\ request' = req
    /\ geminiResponse' = NoGeminiResponse
    /\ IF CallsEndpoint(req)
       THEN /\ pc' = "fetching"
            /\ fetchCalls' = 1
            /\ reply' = NoReply
       ELSE /\ pc' = "done"
            /\ fetchCalls' = 0
            /\ reply' = ReplyBeforeFetch(req)
    /\ UNCHANGED <<previous, outsideResolver>>

\* The fetch settles and the invocation runs to its Response
FetchSettles(g) ==
    /\ pc = "fetching"
    /\ geminiResponse' = g
    /\ reply' = ReplyAfterFetch(request, g)
    /\ pc' = "done"
    /\ UNCHANGED <<request, fetchCalls>>
    /\ UNCHANGED <<previous, outsideResolver>>

\* The Response is delivered and the invocation is over; the handler keeps nothing
\* from one invocation to the next
Return ==
    /\ pc = "done"
    /\ pc' = "idle"
    /\ request' = NoRequest
    /\ reply' = NoReply
    /\ fetchCalls' = 0
    /\ geminiResponse' = NoGeminiResponse
    /\ UNCHANGED <<previous, outsideResolver>>

\* The invocation was answered with generateFallbackResponse(message): at line 108
\* for want of an apiKey, or at line 144 after a non-2xx answer
AnsweredByFallback ==
    /\ pc = "done"
    /\ request.method = "POST" /\ request.json
    /\ ~(Falsy(request.message) \/ Falsy(request.user_id))
    /\ \/ Falsy(request.apiKey)
       \/ /\ geminiResponse.settled
          /\ ~geminiResponse.ok
          /\ geminiResponse.bodyRead

\* Return of an invocation that generateFallbackResponse answered, remembered for
\* comparison with a later one; the handler itself keeps nothing
ReturnRemembered ==
    /\ AnsweredByFallback
    /\ previous' = [message |-> request.message.value, response |-> reply.response]
    /\ pc' = "idle"
    /\ request' = NoRequest
    /\ reply' = NoReply
    /\ fetchCalls' = 0
    /\ geminiResponse' = NoGeminiResponse
    /\ UNCHANGED outsideResolver

\* chat requests of two users, with and without a credential
RepeatUserIds == { <<"u","1">>, <<"u","2">> }
RepeatRequests ==
    [ method : {"POST"}, json : {TRUE},
      message : { Given(m) : m \in Sentences(MaxRepeatWords) \ { <<>> } },
      user_id : { Given(u) : u \in RepeatUserIds },
      apiKey : {Absent} \cup { Given(k) : k \in ApiKeys } ]

\* what the endpoint does with their calls: no answer, a non-2xx answer, an answer
\* with one candidate
RepeatGeminiResponses ==
    { g \in GeminiResponses :
        \/ ~g.settled
        \/ ~g.ok /\ g.bodyRead
        \/ g.ok /\ g.json = "object" /\ Len(g.candidates) = 1 /\ g.candidates[1] # "" }

----------------------------------------------------------------------------
(* Dashboard (RecordsView.tsx, lines 361-423): the recent records grouped by
   field.  The accumulator of the reduce is a plain object: it is modelled by its
   own properties in the order of their creation, and by the properties every
   plain object inherits from Object.prototype. *)

\* .limit(10), line 395
RecentWindow == 10
\* .slice(0, 5), line 416
RecentGroupsShown == 5

Digits == <<"0", "1", "2", "3", "4", "5", "6", "7", "8", "9">>
IsDigit(c) == \E i \in 1..10 : Digits[i] = c
DigitValue(c) == (CHOOSE i \in 1..10 : Digits[i] = c) - 1

RECURSIVE NumericValue(_)
\* the number a sequence of digits writes
NumericValue(k) ==
    IF k = <<>> THEN 0
    ELSE 10 * NumericValue(SubSeq(k, 1, Len(k) - 1)) + DigitValue(k[Len(k)])

\* k is an array index: the canonical decimal of an integer below 2^32 - 1. The
\* properties with such keys come first, in ascending order, when the properties
\* of an object are listed. Written for keys of nine digits or fewer, all of
\* which are below 2^32 - 1; FieldNames has none longer.
IsArrayIndex(k) ==
    /\ Len(k) \in 1..9
    /\ \A i \in 1..Len(k) : IsDigit(k[i])
    /\ Len(k) > 1 => k[1] # "0"

\* the properties of Object.prototype, which `acc[record.field]` finds on {} when
\* acc has no own property of that name
ObjectPrototypeKeys ==
    { <<"c","o","n","s","t","r","u","c","t","o","r">>,
      <<"t","o","S","t","r","i","n","g">>,
      <<"v","a","l","u","e","O","f">>,
      <<"_","_","p","r","o","t","o","_","_">> }

\* the position of the own property k of acc, 0 when acc has none
OwnProperty(acc, k) ==
    IF \E i \in 1..Len(acc) : acc[i].field = k
    THEN CHOOSE i \in 1..Len(acc) : acc[i].field = k
    ELSE 0

\* !acc[record.field], line 398
LacksProperty(acc, k) == OwnProperty(acc, k) = 0 /\ k \notin ObjectPrototypeKeys

\* the callback of the reduce, lines 397-406. `acc[record.field].count += 1` on an
\* inherited property writes to the object of Object.prototype, not to acc.
reduceStep(acc, record) ==
    LET created == IF LacksProperty(acc, record.field)
                   THEN Append(acc, [field |-> record.field, count |-> 0,
                                     value |-> record.value])
                   ELSE acc
        i == OwnProperty(created, record.field)
    IN  IF i = 0 THEN created
        ELSE [created EXCEPT ![i].count = @ + 1]

RECURSIVE reduce(_, _)
\* fieldData.reduce(callback, {}), with the records still to visit and acc
reduce(rest, acc) ==
    IF rest = <<>> THEN acc
    ELSE reduce(Tail(rest), reduceStep(acc, Head(rest)))

RECURSIVE SortByIndex(_)
\* properties with array-index keys in ascending order of the index
SortByIndex(props) ==
    IF props = {} THEN <<>>
    ELSE LET least == CHOOSE p \in props :
                          \A q \in props : NumericValue(p.field) <= NumericValue(q.field)
         IN  <<least>> \o SortByIndex(props \ {least})

\* Object.values(acc): the array-index keys ascending, then the other keys in the
\* order of their creation
ObjectValues(acc) ==
    SortByIndex({ acc[i] : i \in { j \in 1..Len(acc) : IsArrayIndex(acc[j].field) } })
    \o SelectSeq(acc, LAMBDA p : ~IsArrayIndex(p.field))

\* array.slice(0, n)
Take(q, n) == SubSeq(q, 1, IF Len(q) < n THEN Len(q) ELSE n)

\* Field names the form accepts. The reduce and Object.values tell names apart by
\* equality only, except for array indices and for the names of inherited
\* properties: plain names stand for any names that are neither.
PlainNames == << Temp, pH, <<"R","a","i","n">>, <<"W","i","n","d">> >>
SpecialNames ==
    { <<"7">>, <<"1","0">>, <<"c","o","n","s","t","r","u","c","t","o","r">> }

FieldNames == SpecialNames \cup { PlainNames[i] : i \in 1..Len(PlainNames) }

\* the names a row may have after rows of the names in used: a special name, a
\* plain name already used, or the next plain name not used yet
NamesAfter(used) ==
    LET plainUsed == Cardinality({ i \in 1..Len(PlainNames) :
                                     \E j \in 1..Len(used) : used[j] = PlainNames[i] })
        upTo == IF plainUsed < Len(PlainNames) THEN plainUsed + 1 ELSE plainUsed
    IN  SpecialNames \cup { PlainNames[i] : i \in 1..upTo }

\* the value of the i-th row written to the table: its number, written out
ValueAt(i) == <<Digits[i + 1]>>

\* { data: null } of a query that failed, and of one not made yet
NullData == [isNull |-> TRUE, rows |-> <<>>]
Data(rows) == [isNull |-> FALSE, rows |-> rows]

\* the state of the component when it mounts, lines 363-370
DashboardMounted ==
    /\ recentRecords = <<>>
    /\ dashboardLoading = TRUE
    /\ syncStatus = "synced"
    /\ fieldData = NullData
    /\ groupedData = <<>>

\* the dashboard mounted over an empty table
DashboardInit ==
    /\ DashboardMounted
    /\ fieldRows = <<>>

\* A row is written to field_records before the dashboard loads: the newest row
\* comes first in the order of the query
InsertFieldRow(name) ==
    /\ dashboardLoading
    /\ Len(fieldRows) < MaxFieldRows
    /\ name \in NamesAfter([i \in 1..Len(fieldRows) |-> fieldRows[i].field])
    /\ fieldRows' = <<[field |-> name, value |-> ValueAt(Len(fieldRows) + 1)]>>
                        \o fieldRows
    /\ UNCHANGED <<recentRecords, dashboardLoading, syncStatus, fieldData, groupedData>>
    /\ UNCHANGED outsideDashboard

\* loadDashboardData, lines 376-423, when the store answers. supabase-js reports a
\* failed query as { data: null }, which `fieldData?.reduce(...) || {}` turns into
\* an empty object.
loadDashboardData(answered) ==
    /\ dashboardLoading
    /\ fieldData' = IF answered THEN Data(Take(fieldRows, RecentWindow)) ELSE NullData
    /\ groupedData' = IF fieldData'.isNull THEN <<>> ELSE reduce(fieldData'.rows, <<>>)
    /\ recentRecords' = Take(ObjectValues(groupedData'), RecentGroupsShown)
    /\ syncStatus' = "synced"
    /\ dashboardLoading' = FALSE
    /\ UNCHANGED fieldRows
    /\ UNCHANGED outsideDashboard

----------------------------------------------------------------------------
(* The exports: Dashboard.exportData (RecordsView.tsx, lines 425-468) and
   RecordsView.exportFiltered (lines 128-145).  A file is the text handed to Blob,
   character by character. *)

Comma == ","
NewLine == "\n"
Quote == "\""
Backslash == "\\"

RECURSIVE JoinWith(_, _)
\* the texts of parts with the text between put between each two
JoinWith(parts, between) ==
    IF parts = <<>> THEN <<>>
    ELSE IF Len(parts) = 1 THEN parts[1]
    ELSE parts[1] \o between \o JoinWith(Tail(parts), between)

\* parts.join(sep)
Join(parts, sep) == JoinWith(parts, <<sep>>)

\* two decimal digits, as in the time of a timestamp
TwoDigits(n) == <<Digits[(n \div 10) + 1], Digits[(n % 10) + 1]>>

\* record.timestamp as the store returns it: the text of the instant, in UTC
TimestampText(ts) ==
    LET time == (ts % MsPerDay) \div 1000 IN
    TwoDigits(ts \div MsPerDay) \o <<"T">> \o TwoDigits(time \div 3600) \o <<":">>
        \o TwoDigits((time % 3600) \div 60) \o <<":">> \o TwoDigits(time % 60) \o <<"Z">>

\* ['ID', 'Field', 'Value', 'Location', 'Timestamp'], lines 129 and 439
csvHeaders ==
    << <<"I","D">>, <<"F","i","e","l","d">>, <<"V","a","l","u","e">>,
       <<"L","o","c","a","t","i","o","n">>, <<"T","i","m","e","s","t","a","m","p">> >>

\* csvContentOf with the records in the opposite order
csvContentOfReversed(recs) ==
    Join(<<Join(csvHeaders, Comma)>>
         \o [i \in 1..Len(recs) |->
               LET r == recs[Len(recs) + 1 - i] IN
               Join(<<r.id, r.field, r.value, r.location, TimestampText(r.timestamp)>>,
                    Comma)],
         NewLine)

\* csvContent, lines 130-135 and 440-445
csvContentOf(recs) ==
    Join(<<Join(csvHeaders, Comma)>>
         \o [i \in 1..Len(recs) |->
               Join(<<recs[i].id, recs[i].field, recs[i].value, recs[i].location,
                      TimestampText(recs[i].timestamp)>>, Comma)],
         NewLine)

\* the user the rows belong to
Owner == <<"u","1">>

\* the properties of a row of select('*'), in the order of the columns
Entries(r) ==
    << [key |-> <<"i","d">>, value |-> r.id],
       [key |-> <<"f","i","e","l","d">>, value |-> r.field],
       [key |-> <<"v","a","l","u","e">>, value |-> r.value],
       [key |-> <<"l","o","c","a","t","i","o","n">>, value |-> r.location],
       [key |-> <<"t","i","m","e","s","t","a","m","p">>,
        value |-> TimestampText(r.timestamp)],
       [key |-> <<"u","s","e","r","_","i","d">>, value |-> Owner] >>

\* JSONQuote without the escapes
JSONQuoteVerbatim(text) == <<Quote>> \o text \o <<Quote>>

RECURSIVE Escaped(_)
\* the characters of a string as JSON.stringify writes them between the quotes
Escaped(text) ==
    IF text = <<>> THEN <<>>
    ELSE (IF Head(text) = Quote THEN <<Backslash, Quote>>
          ELSE IF Head(text) = Backslash THEN <<Backslash, Backslash>>
          ELSE IF Head(text) = NewLine THEN <<Backslash, "n">>
          ELSE <<Head(text)>>)
         \o Escaped(Tail(text))

\* JSON.stringify of a string
JSONQuote(text) == <<Quote>> \o Escaped(text) \o <<Quote>>

Spaces(n) == [i \in 1..n |-> " "]

\* JSON.stringify of one row with indentation 2, as an element of an array
JSONObject(entries) ==
    Spaces(2) \o <<"{", NewLine>>
    \o JoinWith([i \in 1..Len(entries) |->
                    Spaces(4) \o JSONQuote(entries[i].key) \o <<":", " ">>
                    \o JSONQuote(entries[i].value)],
                <<Comma, NewLine>>)
    \o <<NewLine>> \o Spaces(2) \o <<"}">>

\* JSON.stringify(records, null, 2), line 451
JSONStringify(recs) ==
    IF recs = <<>> THEN <<"[", "]">>
    ELSE <<"[", NewLine>>
         \o JoinWith([i \in 1..Len(recs) |-> JSONObject(Entries(recs[i]))],
                     <<Comma, NewLine>>)
         \o <<NewLine, "]">>

\* no export made yet
NoDownload == [source |-> "none", type |-> "none", content |-> <<>>]

\* Rows of field_records with a quote, a comma and a backslash in their texts; two
\* of them of the same instant
ExportRowPool ==
    { Row(<<"e","1">>, Temp, <<"2", Quote>>, North, At(2, 23, 59, 0)),
      Row(<<"e","2">>, pH, Seven, <<"a", Backslash, "b">>, At(3, 0, 0, 1)),
      Row(<<"e","3">>, pH, Twenty, <<"A", Comma, " ", "N">>, At(2, 23, 59, 0)) }

ExportsInit ==
    /\ exported = NullData
    /\ download = NoDownload

\* exportFiltered, lines 128-145: offered once the records view has loaded
exportFiltered ==
    /\ currentView = "records"
    /\ ~loading
    /\ exported' = Data(filteredRecords)
    /\ download' = [source |-> "exportFiltered", type |-> "text/csv",
                    content |-> csvContentOf(filteredRecords)]
    /\ UNCHANGED <<recordsViewVars, dashboardVars, outsideExport>>

\* exportData(format), lines 425-468: offered once the dashboard has loaded. The
\* store answers with all rows, newest first, or with { data: null }, on which the
\* handler returns (line 432).
exportData(format, answered) ==
    /\ currentView = "dashboard"
    /\ ~dashboardLoading
    /\ IF answered
       THEN \E recs \in NewestFirst(table) :
               /\ exported' = Data(recs)
               /\ download' =
                    [source |-> "exportData",
                     type |-> IF format = "csv" THEN "text/csv" ELSE "application/json",
                     content |-> IF format = "csv" THEN csvContentOf(recs)
                                 ELSE JSONStringify(recs)]
       ELSE UNCHANGED <<exported, download>>
    /\ UNCHANGED <<recordsViewVars, dashboardVars, outsideExport>>

----------------------------------------------------------------------------
(* The writes to the store: RecordsView.deleteRecord (RecordsView.tsx, lines
   97-126) and DataCollectionForm (DataCollectionForm.tsx).  AppContent shows one
   view at a time (App.tsx, lines 27-38); a behaviour is the life of the one view
   that currentView names.  One call of deleteRecord and one of handleSubmit is in
   progress at a time, and the user is signed in. *)

\* console.error('Error deleting record:', error), RecordsView.tsx line 124
ErrorDeletingRecord == "Error deleting record:"
\* console.error('Error saving record:', error), DataCollectionForm.tsx line 114
ErrorSavingRecord == "Error saving record:"
\* DataCollectionForm.tsx line 115
FailedToSave == "Failed to save record. Please try again."

NoDelete == [pc |-> "idle", id |-> None, outcome |-> "none"]

\* recordsAfterDelete with the record removed whether or not the store removed it
recordsAfterDeleteOptimistic(prev, id, error) ==
    SelectSeq(prev, LAMBDA record : record.id # id)

\* records once the delete of line 101 has settled and the call has run to its
\* end: `if (error) throw error` skips the setRecords of line 122
recordsAfterDelete(prev, id, error) ==
    IF error THEN prev
    ELSE SelectSeq(prev, LAMBDA record : record.id # id)

\* an entry of activity_logs
LogEntry(action, id, field, value) ==
    [action |-> action, id |-> id, field |-> field, value |-> value]

\* onClick of the delete button of a row shown, and the answer to confirm(),
\* lines 97-98
DeleteRecord(id, confirmed) ==
    /\ currentView = "records"
    /\ ~loading
    /\ deleteOp.pc = "idle"
    /\ \E i \in 1..Len(filteredRecords) : filteredRecords[i].id = id
    /\ deleteOp' = IF confirmed THEN [pc |-> "deleting", id |-> id, outcome |-> "none"]
                   ELSE [pc |-> "idle", id |-> id, outcome |-> "declined"]
    /\ UNCHANGED <<recordsViewVars, consoleErrors, currentView, recordsViewMessage,
                   formVars, activityLogs>>
    /\ UNCHANGED outsideWrites

\* the call of deleteRecord once the delete has settled, were `if (error) throw
\* error` left out
deleteOpAfterDeleteUnchecked(op, error) == [op EXCEPT !.pc = "logging"]

\* the call of deleteRecord once the delete of lines 101-104 has settled: line 106
\* throws on an error, and the catch block ends the call
deleteOpAfterDelete(op, error) ==
    IF error THEN [op EXCEPT !.pc = "idle", !.outcome = "failed"]
    ELSE [op EXCEPT !.pc = "logging"]

\* the delete of lines 101-104 settles; on an error the catch block logs it and
\* the call is over, lines 106 and 123-125
DeleteSettles(error) ==
    /\ deleteOp.pc = "deleting"
    /\ IF error
       THEN /\ table' = table
            /\ consoleErrors' = consoleErrors \cup {ErrorDeletingRecord}
            /\ records' = recordsAfterDelete(records, deleteOp.id, TRUE)
       ELSE /\ table' = { r \in table : r.id # deleteOp.id }
            /\ UNCHANGED <<consoleErrors, records>>
    /\ deleteOp' = deleteOpAfterDelete(deleteOp, error)
    /\ UNCHANGED <<loading, searchTerm, filters, tzOffset>>
    /\ ApplyFiltersEffect
    /\ UNCHANGED <<currentView, recordsViewMessage, formVars, activityLogs>>
    /\ UNCHANGED outsideWrites

\* records after the log insert, were a refused log insert to end the call
recordsAfterLogIfLogged(prev, id, logged) ==
    IF logged THEN recordsAfterDelete(prev, id, FALSE) ELSE prev

\* records once the insert into activity_logs has settled: its result is not
\* looked at, and setRecords of line 121 follows
recordsAfterLog(prev, id, logged) == recordsAfterDelete(prev, id, FALSE)

\* the insert into activity_logs of lines 110-119 settles, its result not looked
\* at, and setRecords of line 121 drops the record
DeleteLogSettles(logged) ==
    /\ deleteOp.pc = "logging"
    /\ activityLogs' = IF logged
                       THEN Append(activityLogs,
                                   LogEntry("DATA_DELETE", deleteOp.id, <<>>, <<>>))
                       ELSE activityLogs
    /\ records' = recordsAfterLog(records, deleteOp.id, logged)
    /\ deleteOp' = [deleteOp EXCEPT !.pc = "idle", !.outcome = "deleted"]
    /\ UNCHANGED <<loading, searchTerm, filters, table, tzOffset>>
    /\ ApplyFiltersEffect
    /\ UNCHANGED <<currentView, consoleErrors, recordsViewMessage, formVars>>
    /\ UNCHANGED outsideWrites

\* String.prototype.trim, for texts whose white space is the space
Trim(text) ==
    LET inked == { i \in 1..Len(text) : text[i] # " " } IN
    IF inked = {} THEN <<>>
    ELSE SubSeq(text, CHOOSE i \in inked : \A j \in inked : i <= j,
                      CHOOSE i \in inked : \A j \in inked : j <= i)

EmptyForm == [field |-> <<>>, value |-> <<>>, location |-> <<>>]
NoErrors == [field |-> None, value |-> None, location |-> None]

\* newErrors of validateForm, lines 29-46
validateForm(data) ==
    [field |-> IF Trim(data.field) = <<>> THEN "Field name is required" ELSE None,
     value |-> IF Trim(data.value) = <<>> THEN "Value is required" ELSE None,
     location |-> IF Trim(data.location) = <<>> THEN "Location is required" ELSE None]

\* what the user types into the three inputs
FormTexts ==
    [field |-> { <<>>, <<" ">>, <<" ","p","H">> },
     value |-> { <<>>, Seven },
     location |-> { <<>>, North }]

\* the ids the store gives to the rows the form adds, and the instant of their
\* timestamp: later than every row of RowPool
NewIds == <<"n1", "n2", "n3">>
Now == At(4, 0, 0, 0)

\* null for a user id
NoUser == <<>>

NoRow == Row(None, <<>>, <<>>, <<>>, 0)
NoSubmit == [pc |-> "idle", outcome |-> "none", row |-> NoRow, owner |-> NoUser,
             entered |-> EmptyForm]

DataCollectionFormInit ==
    /\ formData = EmptyForm
    /\ formErrors = NoErrors
    /\ formLoading = FALSE
    /\ success = FALSE
    /\ submitOp = NoSubmit

WritesInit ==
    /\ consoleErrors = {}
    /\ deleteOp = NoDelete
    /\ recordsViewMessage = None
    /\ DataCollectionFormInit
    /\ activityLogs = <<>>

\* handleInputChange, lines 121-126
handleInputChange(name, text) ==
    /\ currentView = "collection"
    /\ formData' = [formData EXCEPT ![name] = text]
    /\ formErrors' = IF formErrors[name] # None THEN [formErrors EXCEPT ![name] = None]
                     ELSE formErrors
    /\ submitOp' = [submitOp EXCEPT !.outcome = "none"]
    /\ UNCHANGED <<formLoading, success>>
    /\ UNCHANGED <<recordsViewVars, consoleErrors, currentView, deleteOp,
                   recordsViewMessage, activityLogs>>
    /\ UNCHANGED outsideWrites

\* the record of the insert, were the texts sent as entered
insertedRecordUntrimmed(id, data) == Row(id, data.field, data.value, data.location, Now)

\* the record of the insert, lines 83-91 (user_id travels beside it, as owner)
insertedRecord(id, data) ==
    Row(id, Trim(data.field), Trim(data.value), Trim(data.location), Now)

\* if (!validateForm()) return; if (!user) return, lines 74-75
handleSubmitReturns(errors, u) == errors # NoErrors \/ u = NoUser

\* handleSubmit up to the await of the insert, lines 71-91; the button is disabled
\* while loading (line 250)
handleSubmit ==
    /\ currentView = "collection"
    /\ ~formLoading
    /\ submitOp.pc = "idle"
    /\ formErrors' = validateForm(formData)
    /\ IF handleSubmitReturns(formErrors', user)
       THEN /\ submitOp' = [NoSubmit EXCEPT !.outcome = IF formErrors' # NoErrors
                                                        THEN "invalid" ELSE "nouser"]
            /\ UNCHANGED <<formLoading, success>>
       ELSE \E k \in 1..MaxInserts :
               /\ \A r \in table : r.id # NewIds[k]
               /\ \A j \in 1..(k - 1) : \E r \in table : r.id = NewIds[j]
               /\ formLoading' = TRUE
               /\ success' = FALSE
               /\ submitOp' = [pc |-> "inserting", outcome |-> "none",
                               row |-> insertedRecord(NewIds[k], formData),
                               owner |-> user,
                               entered |-> formData]
    /\ UNCHANGED formData
    /\ UNCHANGED <<recordsViewVars, consoleErrors, currentView, deleteOp,
                   recordsViewMessage, activityLogs>>
    /\ UNCHANGED outsideWrites

\* the insert of lines 81-93 settles; on an error the catch block and finally,
\* lines 93 and 113-118
InsertSettles(error) ==
    /\ submitOp.pc = "inserting"
    /\ IF error
       THEN /\ table' = table
            /\ consoleErrors' = consoleErrors \cup {ErrorSavingRecord}
            /\ formErrors' = [NoErrors EXCEPT !.field = FailedToSave]
            /\ formLoading' = FALSE
            /\ submitOp' = [submitOp EXCEPT !.pc = "idle", !.outcome = "failed"]
       ELSE /\ table' = table \cup {submitOp.row}
            /\ submitOp' = [submitOp EXCEPT !.pc = "logging"]
            /\ UNCHANGED <<consoleErrors, formErrors, formLoading>>
    /\ UNCHANGED <<formData, success>>
    /\ UNCHANGED <<records, filteredRecords, filterError, loading, searchTerm, filters,
                   tzOffset>>
    /\ UNCHANGED <<currentView, deleteOp, recordsViewMessage, activityLogs>>
    /\ UNCHANGED outsideWrites

\* the insert into activity_logs of lines 96-105 settles, its result not looked
\* at; then lines 107-112 and finally
InsertLogSettles(logged) ==
    /\ submitOp.pc = "logging"
    /\ activityLogs' = IF logged
                       THEN Append(activityLogs,
                                   LogEntry("DATA_ENTRY", submitOp.row.id,
                                            submitOp.entered.field,
                                            submitOp.entered.value))
                       ELSE activityLogs
    /\ success' = TRUE
    /\ formData' = EmptyForm
    /\ formErrors' = NoErrors
    /\ formLoading' = FALSE
    /\ submitOp' = [submitOp EXCEPT !.pc = "idle", !.outcome = "saved"]
    /\ UNCHANGED <<recordsViewVars, consoleErrors, currentView, deleteOp,
                   recordsViewMessage>>
    /\ UNCHANGED outsideWrites

\* setTimeout(() => setSuccess(false), 3000), line 112
SuccessTimeout ==
    /\ currentView = "collection"
    /\ success
    /\ success' = FALSE
    /\ UNCHANGED <<formData, formErrors, formLoading, submitOp>>
    /\ UNCHANGED <<recordsViewVars, consoleErrors, currentView, deleteOp,
                   recordsViewMessage, activityLogs>>
    /\ UNCHANGED outsideWrites

\* RecordsView mounts and loads: the useEffect of lines 30-32
MountRecordsView ==
    /\ currentView = "records"
    /\ loading
    /\ LoadRecords

\* onChange of the field filter while the records view is shown
FilterByField(f) ==
    /\ currentView = "records"
    /\ SetFilterField(f)

\* Dashboard mounts and loads: the useEffect of lines 372-374
MountDashboard(answered) ==
    /\ currentView = "dashboard"
    /\ loadDashboardData(answered)

----------------------------------------------------------------------------
(* Chatbot (src/unnamed/part_000, lines 163-247).  A conversation is one mount
   of the component: its state is made when AppContent shows the chat view and
   is gone when another view is shown, while the calls it started run on.  The
   handlers run whenever their events are dispatched: the disabled attributes of
   the input and of the button (lines 330 and 334) are not relied on.  The
   user is signed in. *)

\* content of the message the conversation opens with, lines 165-172
Greeting == <<"Hello! I'm your AI field assistant.">>
\* line 214
Apology == <<"I apologize, but I encountered an error processing your request.">>
\* line 238
TroubleConnecting ==
    <<"I'm sorry, but I'm having trouble connecting right now. Please try again later.">>
\* console.error('Error sending message:', error), line 234
ErrorSendingMessage == "Error sending message:"
\* a response of the edge function
Answer == <<"Keep the soil pH between 6 and 7.">>

Message(isUser, content) == [isUser |-> isUser, content |-> content]

\* what the user types into the input
ChatTexts == { <<>>, <<" ">>, <<"p", "H", "?">> }

NoSubmitEvent == [n |-> 0, isLoading |-> FALSE, accepted |-> FALSE]

\* the component as useState makes it, lines 165-174
ChatbotMounted ==
    /\ messages = <<Message(FALSE, Greeting)>>
    /\ inputValue = <<>>
    /\ isLoading = FALSE

ChatbotInit ==
    /\ ChatbotMounted
    /\ conversation = 1
    /\ chatOps = {}
    /\ invoked = 0
    /\ chatLogInserts = <<>>
    /\ chatbotLogs = <<>>
    /\ submitted = NoSubmitEvent
    /\ callHistory = <<>>

\* the guard of sendMessage without its test of isLoading
sendMessageReturnsEarlyOnEmptyOnly(input, pending) ==
    Trim(input) = <<>>

\* `if (!inputValue.trim() || isLoading || !user) return`, line 187
sendMessageReturnsEarly(input, pending) ==
    Trim(input) = <<>> \/ pending

\* onChange of the input, line 327
setInputValue(text) ==
    /\ currentView = "chatbot"
    /\ inputValue' = text
    /\ UNCHANGED <<messages, isLoading, conversation, chatOps, invoked, chatLogInserts,
                   chatbotLogs, submitted, callHistory>>
    /\ UNCHANGED <<currentView, consoleErrors>>
    /\ UNCHANGED outsideChatbot

\* onSubmit of the form: sendMessage up to the await of the invoke, lines 185-208
sendMessage ==
    /\ currentView = "chatbot"
    /\ submitted.n < MaxSubmits
    /\ IF sendMessageReturnsEarly(inputValue, isLoading)
       THEN /\ submitted' = [n |-> submitted.n + 1, isLoading |-> isLoading,
                             accepted |-> FALSE]
            /\ UNCHANGED <<messages, inputValue, isLoading, chatOps, invoked,
                           callHistory>>
       ELSE /\ submitted' = [n |-> submitted.n + 1, isLoading |-> isLoading,
                             accepted |-> TRUE]
            /\ messages' = Append(messages, Message(TRUE, inputValue))
            /\ inputValue' = <<>>
            /\ isLoading' = TRUE
            /\ invoked' = invoked + 1
            /\ chatOps' = chatOps \cup {[call |-> invoked + 1,
                                         conversation |-> conversation,
                                         message |-> inputValue,
                                         pc |-> "invoking",
                                         response |-> <<>>]}
            /\ callHistory' = Append(callHistory,
                                     [conversation |-> conversation,
                                      message |-> inputValue,
                                      outcome |-> "pending",
                                      response |-> <<>>])
    /\ UNCHANGED <<conversation, chatLogInserts, chatbotLogs>>
    /\ UNCHANGED <<currentView, consoleErrors>>
    /\ UNCHANGED outsideChatbot

\* whether the component that made the call is still the one on the screen: the
\* setters of a component that is gone change nothing
OnScreen(op) == currentView = "chatbot" /\ op.conversation = conversation

\* the row of lines 224-229; call stands for its timestamp
ChatLogRow(op, response) ==
    [call |-> op.call, user_id |-> Owner, message |-> op.message, response |-> response]

\* the inserts into chatbot_logs issued once the invoke has settled, were the
\* insert made in the finally block
chatLogInsertsAfterInvokeAlways(inserts, op, error, response) ==
    Append(inserts, ChatLogRow(op, IF error THEN <<>> ELSE response))

\* the inserts into chatbot_logs issued once the invoke has settled: `if (error)
\* throw error` of line 210 skips the insert of lines 222-231
chatLogInsertsAfterInvoke(inserts, op, error, response) ==
    IF error THEN inserts ELSE Append(inserts, ChatLogRow(op, response))

\* isLoading after a finally block that were left out
isLoadingAfterCallKept(pending, onScreen) == pending

\* isLoading after the finally block of lines 244-246
isLoadingAfterCall(pending, onScreen) == IF onScreen THEN FALSE ELSE pending

\* messages after the catch block, were it to append nothing
messagesAfterCatchSilent(prev, onScreen) == prev

\* messages after the catch block of lines 233-243
messagesAfterCatch(prev, onScreen) ==
    IF onScreen THEN Append(prev, Message(FALSE, TroubleConnecting)) ELSE prev

\* the invoke of lines 202-208 settles.  With an error: the catch block and
\* finally, lines 210 and 233-246.  With data: lines 212-231, up to the await of
\* the insert into chatbot_logs
InvokeSettles(call, error, response) ==
    \E op \in chatOps :
    /\ op.call = call
    /\ op.pc = "invoking"
    /\ IF error
       THEN /\ consoleErrors' = consoleErrors \cup {ErrorSendingMessage}
            /\ chatOps' = chatOps \ {op}
            /\ messages' = messagesAfterCatch(messages, OnScreen(op))
            /\ isLoading' = isLoadingAfterCall(isLoading, OnScreen(op))
            /\ callHistory' = [callHistory EXCEPT ![call].outcome = "failed"]
       ELSE /\ chatOps' = (chatOps \ {op})
                             \cup {[op EXCEPT !.pc = "logging", !.response = response]}
            /\ IF OnScreen(op)
               THEN messages' = Append(messages,
                                       Message(FALSE, IF response = <<>> THEN Apology
                                                      ELSE response))
               ELSE UNCHANGED messages
            /\ callHistory' = [callHistory EXCEPT ![call].outcome = "replied",
                                                  ![call].response = response]
            /\ UNCHANGED <<consoleErrors, isLoading>>
    /\ chatLogInserts' = chatLogInsertsAfterInvoke(chatLogInserts, op, error, response)
    /\ UNCHANGED <<inputValue, conversation, invoked, chatbotLogs, submitted>>
    /\ UNCHANGED currentView
    /\ UNCHANGED outsideChatbot

\* the insert into chatbot_logs of lines 222-231 settles, its result not looked
\* at; then finally, lines 244-246
ChatLogSettles(call, logged) ==
    \E op \in chatOps :
    /\ op.call = call
    /\ op.pc = "logging"
    /\ chatbotLogs' = IF logged
                      THEN Append(chatbotLogs, ChatLogRow(op, op.response))
                      ELSE chatbotLogs
    /\ chatOps' = chatOps \ {op}
    /\ isLoading' = isLoadingAfterCall(isLoading, OnScreen(op))
    /\ UNCHANGED <<messages, inputValue, conversation, invoked, chatLogInserts,
                   submitted, callHistory>>
    /\ UNCHANGED <<currentView, consoleErrors>>
    /\ UNCHANGED outsideChatbot

\* onViewChange to another view, Layout line 95: the component is gone
LeaveChatbot ==
    /\ currentView = "chatbot"
    /\ conversation < MaxConversations
    /\ currentView' = "dashboard"
    /\ UNCHANGED <<chatbotVars, consoleErrors>>
    /\ UNCHANGED outsideChatbot

\* onViewChange('chatbot'), Layout line 95: a new component is made
EnterChatbot ==
    /\ currentView = "dashboard"
    /\ currentView' = "chatbot"
    /\ conversation' = conversation + 1
    /\ messages' = <<Message(FALSE, Greeting)>>
    /\ inputValue' = <<>>
    /\ isLoading' = FALSE
    /\ UNCHANGED <<chatOps, invoked, chatLogInserts, chatbotLogs, submitted,
                   callHistory, consoleErrors>>
    /\ UNCHANGED outsideChatbot

----------------------------------------------------------------------------
(* AuthProvider (src/unnamed/part_001) and AppContent (src/src/App.tsx).  null is
   the empty text for a user id and NoSession for a session. *)

\* another account of the same browser
Other == <<"u","2">>
NoSession == [present |-> FALSE, user |-> NoUser]
SessionOf(u) == [present |-> TRUE, user |-> u]
Sessions == { NoSession, SessionOf(Owner), SessionOf(Other) }

\* session?.user ?? null, lines 44 and 66
userOf(s) == IF s.present THEN s.user ELSE NoUser

\* console.error('Error getting session:', error), line 50
ErrorGettingSession == "Error getting session:"

NoInitAuth == [pc |-> "idle", session |-> NoSession]
NoNotification == [count |-> 0, session |-> NoSession]

\* the component as useState makes it, lines 25-27
AuthProviderCreated ==
    /\ user = NoUser
    /\ session = NoSession
    /\ authLoading = TRUE

\* the application starts: the effect has not run yet
AuthInit ==
    /\ AuthProviderCreated
    /\ authPc = "created"
    /\ isMounted = FALSE
    /\ subscription = FALSE
    /\ initAuth = NoInitAuth
    /\ configured \in BOOLEAN
    /\ currentSession \in Sessions
    /\ notified = NoNotification

\* the application in use: the owner of the rows is signed in
SignedIn ==
    /\ user = Owner
    /\ session = SessionOf(Owner)
    /\ authLoading = FALSE
    /\ authPc = "mounted"
    /\ isMounted = TRUE
    /\ subscription = TRUE
    /\ initAuth = [pc |-> "done", session |-> SessionOf(Owner)]
    /\ configured = TRUE
    /\ currentSession = SessionOf(Owner)
    /\ notified = NoNotification

\* the effect of lines 29-79 runs after the first render: without a configured
\* URL it ends at line 33; else it starts initAuth, which runs to the await of
\* getSession, and registers the listener, which may throw (lines 62-73)
AuthProviderEffect(registered) ==
    /\ authPc = "created"
    /\ authPc' = "mounted"
    /\ IF ~configured
       THEN /\ authLoading' = FALSE
            /\ UNCHANGED <<isMounted, subscription, initAuth>>
       ELSE /\ isMounted' = TRUE
            /\ initAuth' = [pc |-> "awaiting", session |-> NoSession]
            /\ subscription' = registered
            /\ UNCHANGED authLoading
    /\ UNCHANGED <<user, session, configured, currentSession, notified>>
    /\ UNCHANGED <<currentView, consoleErrors>>
    /\ UNCHANGED outsideAuth

\* getSession of line 41 reads the session the auth client holds; its promise
\* resolves later
GetSessionReads ==
    /\ initAuth.pc = "awaiting"
    /\ initAuth' = [pc |-> "read", session |-> currentSession]
    /\ UNCHANGED <<user, session, authLoading, authPc, isMounted, subscription,
                   configured, currentSession, notified>>
    /\ UNCHANGED <<currentView, consoleErrors>>
    /\ UNCHANGED outsideAuth

\* the session and the user once getSession has resolved, were isMounted not
\* looked at
sessionAfterGetSessionUnguarded(prev, mounted, read) == read

\* the session once getSession has resolved, lines 42-45
sessionAfterGetSession(prev, mounted, read) == IF mounted THEN read ELSE prev

\* the await of line 41 is over: getSession has resolved with the session it read
\* (lines 42-45) or has thrown (lines 46-51, the message with or without 'Failed
\* to fetch'); then finally, lines 52-56
GetSessionSettles(thrown, failedToFetch) ==
    /\ \/ initAuth.pc = "read"
       \/ initAuth.pc = "awaiting" /\ thrown
    /\ initAuth' = [initAuth EXCEPT !.pc = "done"]
    /\ IF thrown
       THEN /\ UNCHANGED <<user, session>>
            /\ consoleErrors' = IF failedToFetch THEN consoleErrors
                                ELSE consoleErrors \cup {ErrorGettingSession}
       ELSE /\ session' = sessionAfterGetSession(session, isMounted, initAuth.session)
            /\ user' = userOf(session')
            /\ UNCHANGED consoleErrors
    /\ authLoading' = IF isMounted THEN FALSE ELSE authLoading
    /\ UNCHANGED <<authPc, isMounted, subscription, configured, currentSession, notified>>
    /\ UNCHANGED currentView
    /\ UNCHANGED outsideAuth

\* the auth client changes its session (a sign-in, a sign-out, here or in
\* another tab) and notifies the listener of lines 63-69
onAuthStateChange(s) ==
    /\ subscription
    /\ notified.count < MaxNotifications
    /\ currentSession' = s
    /\ notified' = [count |-> notified.count + 1, session |-> s]
    /\ IF isMounted
       THEN /\ session' = s
            /\ user' = userOf(s)
            /\ authLoading' = FALSE
       ELSE UNCHANGED <<user, session, authLoading>>
    /\ UNCHANGED <<authPc, isMounted, subscription, initAuth, configured>>
    /\ UNCHANGED <<currentView, consoleErrors>>
    /\ UNCHANGED outsideAuth

\* the cleanup of the effect, lines 75-78; the effect that ended at line 33
\* returned none
AuthProviderCleanup ==
    /\ authPc = "mounted"
    /\ authPc' = "unmounted"
    /\ IF configured
       THEN /\ isMounted' = FALSE
            /\ subscription' = FALSE
       ELSE UNCHANGED <<isMounted, subscription>>
    /\ UNCHANGED <<user, session, authLoading, initAuth, configured, currentSession,
                   notified>>
    /\ UNCHANGED <<currentView, consoleErrors>>
    /\ UNCHANGED outsideAuth

DataViews == { "Dashboard", "DataCollectionForm", "RecordsView", "Chatbot" }

\* what AppContent returns, were the view chosen before the user is looked at
AppContentShowsViewFirst(pending, u, view) ==
    IF pending THEN "spinner"
    ELSE CASE view = "dashboard" -> "Dashboard"
           [] view = "collection" -> "DataCollectionForm"
           [] view = "records" -> "RecordsView"
           [] view = "chatbot" -> "Chatbot"
           [] OTHER -> IF u = NoUser THEN "AuthForm" ELSE "Dashboard"

\* what AppContent returns, App.tsx lines 14-45
AppContentShows(pending, u, view) ==
    IF pending THEN "spinner"
    ELSE IF u = NoUser THEN "AuthForm"
    ELSE CASE view = "dashboard" -> "Dashboard"
           [] view = "collection" -> "DataCollectionForm"
           [] view = "records" -> "RecordsView"
           [] view = "chatbot" -> "Chatbot"
           [] OTHER -> "Dashboard"

\* onClick of an entry of the navigation of Layout (part_000 line 95), which
\* AppContent renders around the data view: setCurrentView
onViewChange(view) ==
    /\ authPc = "mounted"
    /\ AppContentShows(authLoading, user, currentView) \in DataViews
    /\ currentView' = view
    /\ UNCHANGED <<authVars, consoleErrors>>
    /\ UNCHANGED outsideAuth

----------------------------------------------------------------------------
(* AuthForm (src/src/components/AuthForm.tsx) with signIn and signUp of
   AuthProvider (part_001 lines 81-120).  The form is on the screen while no user
   is signed in; its submit button is disabled while loading (line 168). *)

\* line 28
UsernameRequired == "Username is required"
\* line 35
AnErrorOccurred == "An error occurred"
\* part_001 lines 83 and 101
NotConfiguredMessage == "Supabase is not configured. Please add valid VITE_SUPABASE_URL and VITE_SUPABASE_ANON_KEY to your .env file."
\* part_001 lines 93 and 116
UnableToConnect == "Unable to connect to Supabase. Please check your configuration in .env file."
\* messages of the errors the auth client answers with; '' for one without
FailedToFetch == "Failed to fetch"
AuthErrorMessages == { "Invalid login credentials", FailedToFetch, "" }

EmptyAuthForm == [email |-> <<>>, password |-> <<>>, username |-> <<>>]

\* what the user types into the three inputs
AuthFormTexts ==
    [email |-> { <<>>, <<"a", "@", "b">> },
     password |-> { <<>>, <<"p", "w">> },
     username |-> { <<>>, <<" ">>, <<" ", "a">> }]

NoAuthSubmit == [pc |-> "idle", mode |-> "none", outcome |-> "none", n |-> 0,
                 calls |-> 0, entered |-> EmptyAuthForm]

\* the component as useState makes it, lines 7-15
AuthFormInit ==
    /\ isLogin = TRUE
    /\ authFormData = EmptyAuthForm
    /\ authError = ""
    /\ authFormLoading = FALSE
    /\ authSubmit = NoAuthSubmit

\* AppContent has the AuthForm on the screen
AuthFormShown == AppContentShows(authLoading, user, currentView) = "AuthForm"

\* onChange of the inputs, lines 108, 128 and 147
setFormData(name, text) ==
    /\ AuthFormShown
    /\ authFormData' = [authFormData EXCEPT ![name] = text]
    /\ UNCHANGED <<isLogin, authError, authFormLoading, authSubmit>>
    /\ UNCHANGED authVars
    /\ UNCHANGED outsideAuthForm

\* toggleMode, lines 41-45
toggleMode ==
    /\ AuthFormShown
    /\ isLogin' = ~isLogin
    /\ authError' = ""
    /\ authFormData' = EmptyAuthForm
    /\ UNCHANGED <<authFormLoading, authSubmit>>
    /\ UNCHANGED authVars
    /\ UNCHANGED outsideAuthForm

\* the test of line 27 without its trim
usernameMissingUntrimmed(login, username) == ~login /\ username = <<>>

\* a sign-up whose username is empty once trimmed, lines 24-27
usernameMissing(login, username) == ~login /\ Trim(username) = <<>>

\* handleSubmit up to the await of signIn or signUp, lines 18-33; a sign-up
\* without a username returns at line 30, through finally
handleAuthSubmit ==
    /\ AuthFormShown
    /\ ~authFormLoading
    /\ authSubmit.pc = "idle"
    /\ authSubmit.n < MaxAuthSubmits
    /\ IF usernameMissing(isLogin, authFormData.username)
       THEN /\ authError' = UsernameRequired
            /\ authFormLoading' = FALSE
            /\ authSubmit' = [pc |-> "idle", mode |-> "signUp", outcome |-> "rejected",
                              n |-> authSubmit.n + 1, calls |-> authSubmit.calls,
                              entered |-> authFormData]
       ELSE /\ authError' = ""
            /\ authFormLoading' = TRUE
            /\ authSubmit' = [pc |-> "awaiting",
                              mode |-> IF isLogin THEN "signIn" ELSE "signUp",
                              outcome |-> "none",
                              n |-> authSubmit.n + 1, calls |-> authSubmit.calls + 1,
                              entered |-> authFormData]
    /\ UNCHANGED <<isLogin, authFormData>>
    /\ UNCHANGED authVars
    /\ UNCHANGED outsideAuthForm

\* the message of the error signIn or signUp throws for an answer of the auth
\* client with an error, part_001 lines 82-96 and 100-119
thrownMessage(conf, message) ==
    IF ~conf THEN NotConfiguredMessage
    ELSE IF message = FailedToFetch THEN UnableToConnect
    ELSE message

\* what the catch block of line 35 shows, were it to show the message only
shownForThrownVerbatim(message) == message

\* err.message || 'An error occurred', line 35
shownForThrown(message) == IF message = "" THEN AnErrorOccurred ELSE message

\* signIn or signUp throws: the catch block and finally, lines 34-38
AuthCallThrows(message) ==
    /\ authSubmit.pc = "awaiting"
    /\ authError' = shownForThrown(thrownMessage(configured, message))
    /\ authFormLoading' = FALSE
    /\ authSubmit' = [authSubmit EXCEPT !.pc = "idle", !.outcome = "thrown"]
    /\ UNCHANGED <<isLogin, authFormData>>
    /\ UNCHANGED authVars
    /\ UNCHANGED outsideAuthForm

\* signIn or signUp returns: the auth client has taken the credentials and, when
\* they make a session, has notified the listener of AuthProvider (a sign-up that
\* waits for a confirmation makes none); then finally, line 37, which finds the
\* form on the screen or, once AppContent has been rendered for the user, gone
AuthCallReturns(signedIn, rendered) ==
    /\ authSubmit.pc = "awaiting"
    /\ configured
    /\ authSubmit.mode = "signIn" => signedIn
    /\ signedIn => notified.count < MaxNotifications
    /\ authSubmit' = [authSubmit EXCEPT !.pc = "idle", !.outcome = "returned"]
    /\ IF signedIn
       THEN /\ currentSession' = SessionOf(Owner)
            /\ notified' = [count |-> notified.count + 1, session |-> SessionOf(Owner)]
            /\ IF subscription /\ isMounted
               THEN /\ session' = SessionOf(Owner)
                    /\ user' = Owner
                    /\ authLoading' = FALSE
               ELSE UNCHANGED <<user, session, authLoading>>
       ELSE UNCHANGED <<user, session, authLoading, currentSession, notified>>
    /\ authFormLoading' = IF rendered /\ user' # NoUser THEN authFormLoading ELSE FALSE
    /\ UNCHANGED <<isLogin, authFormData, authError>>
    /\ UNCHANGED <<authPc, isMounted, subscription, initAuth, configured>>
    /\ UNCHANGED outsideAuthForm

----------------------------------------------------------------------------
(* Specifications *)

Init ==
    /\ RecordsViewInit
    /\ ResolverInit
    /\ DashboardInit
    /\ ExportsInit
    /\ WritesInit
    /\ ChatbotInit
    /\ AuthFormInit
    /\ SignedIn
    /\ currentView = "records"

\* the records view not mounted: an empty table, UTC
InitResolverOnly ==
    /\ table = {}
    /\ tzOffset = 0
    /\ RecordsViewInit
    /\ ResolverInit
    /\ DashboardInit
    /\ ExportsInit
    /\ WritesInit
    /\ ChatbotInit
    /\ AuthFormInit
    /\ SignedIn
    /\ currentView = "dashboard"

\* the dashboard alone, its rows written while it loads
InitDashboardOnly == InitResolverOnly

\* the records view and the dashboard over the same rows, for the exports
InitExport ==
    /\ table \in { t \in SUBSET ExportRowPool : Cardinality(t) <= MaxExportRows }
    /\ tzOffset = 0
    /\ RecordsViewMounted
    /\ ResolverInit
    /\ DashboardMounted
    /\ fieldRows \in { [i \in 1..Len(recs) |->
                          [field |-> recs[i].field, value |-> recs[i].value]] :
                       recs \in NewestFirst(table) }
    /\ ExportsInit
    /\ WritesInit
    /\ ChatbotInit
    /\ AuthFormInit
    /\ SignedIn
    /\ currentView \in {"dashboard", "records"}

\* the rows the records view or the form starts from
WriteRowPool == { r \in RowPool : r.id \in {"r1", "r2", "r7"} }

\* the records view or the form over a table of few rows
InitWrites ==
    /\ table \in { t \in SUBSET WriteRowPool : Cardinality(t) <= MaxStoredRows }
    /\ tzOffset = 0
    /\ RecordsViewMounted
    /\ ResolverInit
    /\ DashboardInit
    /\ ExportsInit
    /\ WritesInit
    /\ ChatbotInit
    /\ AuthFormInit
    /\ SignedIn
    /\ currentView \in {"records", "collection"}

\* the records view over a table of few rows, for its edits, deletes and exports
InitRecordsViewEdits ==
    /\ table \in { t \in SUBSET ExportRowPool : Cardinality(t) <= MaxExportRows }
    /\ tzOffset = 0
    /\ RecordsViewMounted
    /\ ResolverInit
    /\ DashboardInit
    /\ ExportsInit
    /\ WritesInit
    /\ ChatbotInit
    /\ AuthFormInit
    /\ SignedIn
    /\ currentView = "records"

\* the application starts
InitAuth ==
    /\ table = {}
    /\ tzOffset = 0
    /\ RecordsViewInit
    /\ ResolverInit
    /\ DashboardInit
    /\ ExportsInit
    /\ WritesInit
    /\ ChatbotInit
    /\ AuthFormInit
    /\ AuthInit
    /\ currentView = "dashboard"

\* AuthProvider has settled with no user signed in: the AuthForm is on the screen
InitAuthForm ==
    /\ table = {}
    /\ tzOffset = 0
    /\ RecordsViewInit
    /\ ResolverInit
    /\ DashboardInit
    /\ ExportsInit
    /\ WritesInit
    /\ ChatbotInit
    /\ AuthFormInit
    /\ user = NoUser
    /\ session = NoSession
    /\ authLoading = FALSE
    /\ authPc = "mounted"
    /\ configured \in BOOLEAN
    /\ isMounted = configured
    /\ subscription = configured
    /\ initAuth = IF configured THEN [pc |-> "done", session |-> NoSession]
                  ELSE NoInitAuth
    /\ currentSession = NoSession
    /\ notified = NoNotification
    /\ currentView = "dashboard"

\* the chat view on the screen, nothing else mounted
InitChatbot ==
    /\ table = {}
    /\ tzOffset = 0
    /\ RecordsViewInit
    /\ ResolverInit
    /\ DashboardInit
    /\ ExportsInit
    /\ WritesInit
    /\ ChatbotInit
    /\ AuthFormInit
    /\ SignedIn
    /\ currentView = "chatbot"

NextRecordsView ==
    \/ LoadRecords
    \/ \E t \in SearchTerms : SetSearchTerm(t)
    \/ \E f \in FieldFilters : SetFilterField(f)
    \/ \E l \in LocationFilters : SetFilterLocation(l)
    \/ \E d \in DateInputs : SetFilterDateFrom(d)
    \/ \E d \in DateInputs : SetFilterDateTo(d)
    \/ clearFilters

NextResolver ==
    \/ \E req \in Requests : Receive(req)
    \/ \E g \in GeminiResponses : FetchSettles(g)
    \/ Return

\* the edge function serving the requests of two users, with an earlier answer of
\* generateFallbackResponse remembered
NextResolverHistory ==
    \/ \E req \in RepeatRequests : Receive(req)
    \/ \E g \in RepeatGeminiResponses : FetchSettles(g)
    \/ Return
    \/ ReturnRemembered

NextDashboard ==
    \/ \E name \in FieldNames : InsertFieldRow(name)
    \/ \E answered \in BOOLEAN : loadDashboardData(answered)

\* the records view and the dashboard with their exports
NextExport ==
    \/ MountRecordsView
    \/ \E f \in FieldFilters : FilterByField(f)
    \/ \E answered \in BOOLEAN : MountDashboard(answered)
    \/ exportFiltered
    \/ \E format \in {"csv", "json"}, answered \in BOOLEAN : exportData(format, answered)

\* the records view with its deletes, or the form with its inserts
NextWrites ==
    \/ MountRecordsView
    \/ \E r \in RowPool, confirmed \in BOOLEAN : DeleteRecord(r.id, confirmed)
    \/ \E error \in BOOLEAN : DeleteSettles(error)
    \/ \E logged \in BOOLEAN : DeleteLogSettles(logged)
    \/ \E name \in DOMAIN FormTexts : \E text \in FormTexts[name] :
          handleInputChange(name, text)
    \/ handleSubmit
    \/ \E error \in BOOLEAN : InsertSettles(error)
    \/ \E logged \in BOOLEAN : InsertLogSettles(logged)
    \/ SuccessTimeout

\* the records view: the load, the edits of the criteria, the deletes and the
\* export of what is shown (the from-date is edited as the to-date is, and is
\* left empty here)
NextRecordsViewEdits ==
    \/ MountRecordsView
    \/ \E t \in SearchTerms : SetSearchTerm(t)
    \/ \E f \in FieldFilters : SetFilterField(f)
    \/ \E l \in LocationFilters : SetFilterLocation(l)
    \/ \E d \in DateInputs : SetFilterDateTo(d)
    \/ clearFilters
    \/ \E r \in ExportRowPool, confirmed \in BOOLEAN : DeleteRecord(r.id, confirmed)
    \/ \E error \in BOOLEAN : DeleteSettles(error)
    \/ \E logged \in BOOLEAN : DeleteLogSettles(logged)
    \/ exportFiltered

\* AuthProvider from its first render to its unmount, and the navigation
NextAuth ==
    \/ \E registered \in BOOLEAN : AuthProviderEffect(registered)
    \/ GetSessionReads
    \/ \E thrown, failedToFetch \in BOOLEAN : GetSessionSettles(thrown, failedToFetch)
    \/ \E s \in Sessions : onAuthStateChange(s)
    \/ AuthProviderCleanup
    \/ \E view \in {"dashboard", "collection", "records", "chatbot"} : onViewChange(view)

\* the AuthForm: typing, the change of mode, submit events and their calls
NextAuthForm ==
    \/ \E name \in DOMAIN AuthFormTexts : \E text \in AuthFormTexts[name] :
          setFormData(name, text)
    \/ toggleMode
    \/ handleAuthSubmit
    \/ \E message \in AuthErrorMessages : AuthCallThrows(message)
    \/ \E signedIn, rendered \in BOOLEAN : AuthCallReturns(signedIn, rendered)

\* the chat view: typing, submit events, the calls settling, the view changed
NextChatbot ==
    \/ \E text \in ChatTexts : setInputValue(text)
    \/ sendMessage
    \/ \E call \in 1..MaxSubmits, error \in BOOLEAN, response \in {<<>>, Answer} :
          InvokeSettles(call, error, response)
    \/ \E call \in 1..MaxSubmits, logged \in BOOLEAN : ChatLogSettles(call, logged)
    \/ LeaveChatbot
    \/ EnterChatbot

Next == NextRecordsView \/ NextResolver \/ NextResolverHistory \/ NextDashboard
           \/ NextExport \/ NextWrites \/ NextChatbot \/ NextRecordsViewEdits
           \/ NextAuth \/ NextAuthForm

\* the records view alone, for each table and time zone
SpecRecordsView == Init /\ [][NextRecordsView]_vars

\* the edge function alone, serving one request after the other
SpecResolver == InitResolverOnly /\ [][NextResolver]_vars

\* the edge function serving one request after the other, earlier ones remembered
SpecResolverHistory == InitResolverOnly /\ [][NextResolverHistory]_vars

\* the dashboard alone: rows are written, then it loads
SpecDashboard == InitDashboardOnly /\ [][NextDashboard]_vars

\* the exports of the records view and of the dashboard
SpecExport == InitExport /\ [][NextExport]_vars

\* the writes of the records view and of the form
SpecWrites == InitWrites /\ [][NextWrites]_vars

\* the records view with its edits, deletes and exports
SpecRecordsViewEdits == InitRecordsViewEdits /\ [][NextRecordsViewEdits]_vars

\* AuthProvider, AppContent and the navigation
SpecAuth == InitAuth /\ [][NextAuth]_vars

\* the AuthForm with signIn and signUp
SpecAuthForm == InitAuthForm /\ [][NextAuthForm]_vars

\* the chat view, opened and left
SpecChatbot == InitChatbot /\ [][NextChatbot]_vars

\* a call of the resolver or an insert into chatbot_logs that is awaited settles
ChatCallSettles ==
    \/ \E call \in 1..MaxSubmits, error \in BOOLEAN, response \in {<<>>, Answer} :
          InvokeSettles(call, error, response)
    \/ \E call \in 1..MaxSubmits, logged \in BOOLEAN : ChatLogSettles(call, logged)

\* the chat view where every network call completes
SpecChatbotFair == SpecChatbot /\ WF_vars(ChatCallSettles)

Spec == Init /\ [][Next]_vars

----------------------------------------------------------------------------
(* Properties of the filter (RecordsView.applyFilters) *)

Range(q) == { q[i] : i \in DOMAIN q }

\* sub is full with some elements left out: an increasing choice of positions of
\* full spells sub
IsSubsequenceOf(sub, full) ==
    \E pos \in [1..Len(sub) -> 1..Len(full)] :
        /\ \A i, j \in 1..Len(sub) : i < j => pos[i] < pos[j]
        /\ \A i \in 1..Len(sub) : full[pos[i]] = sub[i]

\* two characters that are one letter, whatever the case of each
SameLetter(a, b) ==
    \/ a = b
    \/ \E i \in 1..26 : {a, b} = {UpperCaseLetters[i], LowerCaseLetters[i]}

\* t occurs in s, letter case apart
ContainsIgnoringCase(s, t) ==
    \E start \in 0..(Len(s) - Len(t)) :
        \A k \in 1..Len(t) : SameLetter(s[start + k], t[k])

\* the calendar day and the time of day of an instant on the browser's clock
LocalDay(ts, tz) == (ts + tz) \div MsPerDay
LocalTimeOfDay(ts, tz) == (ts + tz) % MsPerDay

\* r meets every criterion that is not empty; a bound that is no date is met by
\* no timestamp
MatchesCriteria(r, term, f, tz) ==
    /\ term # <<>> =>
          \/ ContainsIgnoringCase(r.field, term)
          \/ ContainsIgnoringCase(r.value, term)
          \/ ContainsIgnoringCase(r.location, term)
    /\ f.field # <<>> => ContainsIgnoringCase(r.field, f.field)
    /\ f.location # <<>> => ContainsIgnoringCase(r.location, f.location)
    /\ f.dateFrom # EmptyDate =>
          /\ f.dateFrom.kind = "date"
          /\ r.timestamp >= f.dateFrom.day * MsPerDay
    /\ f.dateTo # EmptyDate =>
          /\ f.dateTo.kind = "date"
          /\ \/ LocalDay(r.timestamp, tz) < f.dateTo.day
             \/ /\ LocalDay(r.timestamp, tz) = f.dateTo.day
                /\ LocalTimeOfDay(r.timestamp, tz) <= At(0, 23, 59, 59)

\* C1: whatever the records and the criteria, filteredRecords is a subsequence of
\* records: each of its elements is one of records, in the order of records, and
\* none more often than in records.
C1_FilterIsSubsequence == IsSubsequenceOf(filteredRecords, records)

\* C1 witness: three records loaded, of which the filter keeps the first and the
\* last.
C1_Witness ==
    /\ Len(records) = 3
    /\ filteredRecords = <<records[1], records[3]>>

\* C2: a record is in filteredRecords exactly when it meets every non-empty
\* criterion: the search term in field, value or location, the field filter in
\* field, the location filter in location (all three letter case apart), a
\* timestamp not before dateFrom and not after the end of the dateTo day.
C2_KeptIffAllCriteriaMatch ==
    \A i \in 1..Len(records) :
        (records[i] \in Range(filteredRecords))
            <=> MatchesCriteria(records[i], searchTerm, filters, tzOffset)

\* C2 witness: all five criteria are set, and the filter keeps one record and
\* drops another.
C2_Witness ==
    /\ searchTerm # <<>>
    /\ filters.field # <<>>
    /\ filters.location # <<>>
    /\ filters.dateFrom.kind = "date"
    /\ filters.dateTo.kind = "date"
    /\ filteredRecords # <<>>
    /\ Len(filteredRecords) < Len(records)

\* C3: with every criterion empty, filteredRecords is records: the same records in
\* the same order.
C3_EmptyCriteriaKeepAll ==
    (searchTerm = <<>> /\ filters = EmptyFilters) => filteredRecords = records

\* C3 witness: three records are loaded and shown while every criterion is empty.
C3_Witness ==
    /\ ~loading
    /\ searchTerm = <<>>
    /\ filters = EmptyFilters
    /\ Len(filteredRecords) = 3

\* C4: with dateTo = D, no record of a later day (on the browser's clock) is kept,
\* and, the other criteria being empty, every record of day D up to 23:59:59 is
\* kept.
C4_DateToCoversWholeDay ==
    filters.dateTo.kind = "date" =>
        \A i \in 1..Len(records) :
            LET r == records[i]
                day == LocalDay(r.timestamp, tzOffset)
            IN /\ day > filters.dateTo.day => r \notin Range(filteredRecords)
               /\ ( /\ day = filters.dateTo.day
                    /\ LocalTimeOfDay(r.timestamp, tzOffset) <= At(0, 23, 59, 59)
                    /\ searchTerm = <<>>
                    /\ filters.field = <<>>
                    /\ filters.location = <<>>
                    /\ filters.dateFrom = EmptyDate )
                  => r \in Range(filteredRecords)

\* C4 witness: dateTo is day 2 in UTC; the record of 23:59:00 of day 2 is kept and
\* the record of 00:00:01 of day 3 is dropped.
C4_Witness ==
    /\ tzOffset = 0
    /\ filters.dateTo = DateString(2)
    /\ \E i \in 1..Len(records) : records[i].timestamp = At(3, 0, 0, 1)
    /\ \E i \in 1..Len(filteredRecords) : filteredRecords[i].timestamp = At(2, 23, 59, 0)
    /\ \A i \in 1..Len(filteredRecords) : filteredRecords[i].timestamp # At(3, 0, 0, 1)

\* C5: when dateFrom or dateTo is no date, filtering the loaded records ends with
\* an InvalidFilterError; it does not complete with a result that silently leaves
\* every record out.
C5_MalformedDateFails ==
    ( /\ filters.dateFrom = MalformedDate \/ filters.dateTo = MalformedDate
      /\ records # <<>> )
        => filterError = "InvalidFilterError"

----------------------------------------------------------------------------
(* Properties of the chatbot edge function *)

\* a request with a message and a user identifier
WellFormed(req) ==
    /\ req.method = "POST"
    /\ req.json
    /\ req.message.present /\ req.message.value # <<>>
    /\ req.user_id.present /\ req.user_id.value # <<>>

\* no credential: apiKey absent or empty
NoCredential(req) == ~req.apiKey.present \/ req.apiKey.value = <<>>

\* the classification rules in their order of priority
Rules ==
    << [keywords |-> {kwTemperature},      response |-> TemperatureResponse],
       [keywords |-> {kwHumidity},         response |-> HumidityResponse],
       [keywords |-> {kwSoil, kwPh},       response |-> SoilResponse],
       [keywords |-> {kwData, kwRecord},   response |-> DataResponse],
       [keywords |-> {kwHelp, kwHow},      response |-> HelpResponse] >>

RuleMatches(i, message) ==
    \E kw \in Rules[i].keywords : ContainsIgnoringCase(message, kw)

\* the response of the first rule that matches, the generic response when none does
ResponseByPriority(message) ==
    LET matching == { i \in DOMAIN Rules : RuleMatches(i, message) } IN
    IF matching = {} THEN GenericResponse
    ELSE Rules[CHOOSE i \in matching : \A j \in matching : i <= j].response

\* C6: the fallback response to a message is the response of the first rule, in
\* the order temperature, humidity, soil/ph, data/record, help/how, one of whose
\* keywords the message holds, letter case apart, and the generic response when
\* no rule matches. Observed where the handler answers with
\* generateFallbackResponse for want of a credential.
C6_FallbackByPriority ==
    (pc = "done" /\ WellFormed(request) /\ NoCredential(request))
        => reply.response = ResponseByPriority(request.message.value)

\* C6 witness: a message in capitals that matches the humidity rule and the
\* temperature rule was answered with the temperature response.
C6_Witness ==
    /\ pc = "done"
    /\ WellFormed(request)
    /\ NoCredential(request)
    /\ RuleMatches(1, request.message.value)
    /\ RuleMatches(2, request.message.value)
    /\ ~includes(request.message.value, kwHumidity)
    /\ reply.response = TemperatureResponse

\* C7: every request with a message and a user identifier gets a successful
\* response that carries a reply, whatever the endpoint does.
C7_WellFormedNeverFails ==
    (pc = "done" /\ WellFormed(request))
        => /\ reply.status = 200
           /\ reply.error = None
           /\ reply.response # None

\* the delegated call failed otherwise than by a non-2xx status: the fetch
\* rejected, the 2xx body could not be read or parsed, or it has no candidate text
FailedOtherThanByStatus(g) ==
    \/ ~g.settled
    \/ /\ g.settled
       /\ g.ok
       /\ \/ ~g.bodyRead
          \/ g.json # "object"
          \/ g.candidates = <<>>
          \/ g.candidates # <<>> /\ g.candidates[1] = ""

\* C8: whenever the delegated call fails otherwise than by a non-2xx status, the
\* reply is the fallback response for the message, the one given when no
\* credential is supplied.
C8_FailureYieldsFallback ==
    (pc = "done" /\ fetchCalls = 1 /\ FailedOtherThanByStatus(geminiResponse))
        => reply = ReplyBeforeFetch([request EXCEPT !.apiKey = Absent])

C10_NoCredentialNoCall ==
    (WellFormed(request) /\ NoCredential(request))
        => /\ fetchCalls = 0
           /\ pc = "done"
           /\ reply = [status |-> 200, error |-> None,
                       response |-> generateFallbackResponse(request.message.value)]

\* C10 witness: a request with an empty apiKey was answered with the response for
\* soil and pH, without a call to the endpoint.
C10_Witness ==
    /\ pc = "done"
    /\ WellFormed(request)
    /\ request.apiKey = Given(<<>>)
    /\ fetchCalls = 0
    /\ reply.response = SoilResponse


\* the canned responses of generateFallbackResponse
FallbackResponses ==
    { TemperatureResponse, HumidityResponse, SoilResponse, DataResponse,
      HelpResponse, GenericResponse }

\* a chat request without a message or without a user identifier
LacksRequiredField(req) ==
    /\ req.method = "POST"
    /\ Falsy(req.message) \/ Falsy(req.user_id)

\* C11: a request that lacks a message or a user identifier is answered with an
\* error, whatever its credential: the endpoint is not called and no fallback
\* response is given; when its body could be read, the error is 'Missing required
\* fields' with status 400.
C11_MissingFieldsRejected ==
    (pc # "idle" /\ LacksRequiredField(request))
        => /\ pc = "done"
           /\ fetchCalls = 0
           /\ reply.status >= 400
           /\ reply.error # None
           /\ reply.response \notin FallbackResponses
           /\ request.json => reply = MissingFieldsReply

\* C11 witness: a request with a message and a credential but no user identifier
\* was answered with 'Missing required fields', without a call to the endpoint.
C11_Witness ==
    /\ pc = "done"
    /\ request.method = "POST" /\ request.json
    /\ ~Falsy(request.message)
    /\ ~request.user_id.present
    /\ ~Falsy(request.apiKey)
    /\ fetchCalls = 0
    /\ reply = MissingFieldsReply

\* the endpoint answered with a 2xx status and a body whose first candidate has a
\* text
WellFormedSuccess(g) ==
    /\ g.settled /\ g.ok /\ g.bodyRead
    /\ g.json = "object"
    /\ g.candidates # <<>>
    /\ g.candidates[1] # ""

\* C12: when the endpoint is called and answers with a well-formed success, the
\* reply is the text of the first candidate of that answer: not a fallback
\* response, not the text of a later candidate.
C12_ReplyIsFirstCandidate ==
    (pc = "done" /\ fetchCalls = 1 /\ WellFormedSuccess(geminiResponse))
        => /\ reply = [status |-> 200, error |-> None,
                       response |-> geminiResponse.candidates[1]]
           /\ reply.response \notin FallbackResponses

\* C12 witness: the endpoint answered with two candidates of different texts and
\* the reply is the text of the first.
C12_Witness ==
    /\ pc = "done"
    /\ fetchCalls = 1
    /\ WellFormedSuccess(geminiResponse)
    /\ Len(geminiResponse.candidates) = 2
    /\ geminiResponse.candidates[2] # ""
    /\ geminiResponse.candidates[2] # geminiResponse.candidates[1]
    /\ reply.response = geminiResponse.candidates[1]


----------------------------------------------------------------------------
(* Properties of the dashboard aggregation (Dashboard.loadDashboardData) *)

\* the positions of the records of the window that have the field name of the
\* record at position i
SameField(window, i) == { k \in 1..Len(window) : window[k].field = window[i].field }

\* the least of a non-empty set of numbers
Least(S) == CHOOSE k \in S : \A m \in S : k <= m

\* C14: the aggregation of the window of recent records has one group for each
\* distinct field name of the window and no other group; the count of a group is
\* the number of records of the window with its field name, and its value is the
\* value of the first of them.
C14_OneGroupPerField ==
    (~dashboardLoading /\ ~fieldData.isNull)
        => /\ \A i \in 1..Len(fieldData.rows) :
                 LET same == SameField(fieldData.rows, i)
                     groups == { j \in 1..Len(groupedData) :
                                   groupedData[j].field = fieldData.rows[i].field }
                 IN  /\ Cardinality(groups) = 1
                     /\ \A j \in groups :
                           /\ groupedData[j].count = Cardinality(same)
                           /\ groupedData[j].value = fieldData.rows[Least(same)].value
           /\ \A j \in 1..Len(groupedData) :
                 \E i \in 1..Len(fieldData.rows) :
                     fieldData.rows[i].field = groupedData[j].field

\* the distinct field names of the window in the order of their first occurrence
FirstSeenOrder(window) ==
    LET firsts == { i \in 1..Len(window) : i = Least(SameField(window, i)) }
    IN  SelectSeq([i \in 1..Len(window) |-> [pos |-> i, field |-> window[i].field]],
                  LAMBDA e : e.pos \in firsts)

\* C15: the groups shown are those of the first five distinct field names of the
\* window, in the order in which the names first occur in it; an empty window
\* shows no group. Stated for windows without the name of an inherited property,
\* which C14 is about.
C15_FirstSeenOrderTruncated ==
    ( /\ ~dashboardLoading
      /\ ~fieldData.isNull
      /\ \A i \in 1..Len(fieldData.rows) :
             fieldData.rows[i].field \notin ObjectPrototypeKeys )
        => LET expected == Take(FirstSeenOrder(fieldData.rows), RecentGroupsShown) IN
           /\ Len(recentRecords) = Len(expected)
           /\ \A j \in 1..Len(expected) : recentRecords[j].field = expected[j].field
           /\ fieldData.rows = <<>> => recentRecords = <<>>


----------------------------------------------------------------------------
(* Properties of the exports (Dashboard.exportData, RecordsView.exportFiltered) *)

RECURSIVE SplitLines(_)
\* the lines of a text: the parts between its line feeds
SplitLines(text) ==
    LET feeds == { i \in 1..Len(text) : text[i] = NewLine } IN
    IF feeds = {} THEN <<text>>
    ELSE LET first == Least(feeds) IN
         <<SubSeq(text, 1, first - 1)>> \o SplitLines(SubSeq(text, first + 1, Len(text)))

HeaderLine ==
    << "I","D",",","F","i","e","l","d",",","V","a","l","u","e",",",
       "L","o","c","a","t","i","o","n",",","T","i","m","e","s","t","a","m","p" >>

\* C16: a CSV export, of the dashboard or of the filtered records, is the header
\* line ID,Field,Value,Location,Timestamp followed by one line for each record
\* exported, in the order of the records: id, field, value, location and timestamp
\* with a comma between each two.
C16_CsvOneLinePerRecord ==
    download.type = "text/csv"
        => LET lines == SplitLines(download.content)
               recs == exported.rows
           IN  /\ Len(lines) = Len(recs) + 1
               /\ lines[1] = HeaderLine
               /\ \A i \in 1..Len(recs) :
                     lines[i + 1] = recs[i].id \o <<",">> \o recs[i].field \o <<",">>
                                    \o recs[i].value \o <<",">> \o recs[i].location
                                    \o <<",">> \o TimestampText(recs[i].timestamp)

\* C16 witness: with two records loaded and a field filter that keeps one, the
\* export of the filtered records has the header and the line of that record,
\* whose location holds a comma.
C16_Witness ==
    /\ download.source = "exportFiltered"
    /\ Len(records) = 2
    /\ Len(exported.rows) = 1
    /\ \E i \in 1..Len(exported.rows[1].location) : exported.rows[1].location[i] = Comma
    /\ Len(SplitLines(download.content)) = 2

(* JSON.parse, for the texts an export can be: an array of objects whose values
   are strings.  Any other text is a syntax error. *)

SyntaxError == [ok |-> FALSE, value |-> <<>>]

\* the positions of a text that are in the set S, in ascending order
Ascending(text, S) == SelectSeq([i \in 1..Len(text) |-> i], LAMBDA i : i \in S)

\* the number of backslashes in a row just before position i
BackslashesBefore(text, i) ==
    LET others == { j \in 1..(i - 1) : text[j] # Backslash } IN
    IF others = {} THEN i - 1
    ELSE i - 1 - (CHOOSE j \in others : \A k \in others : k <= j)

\* the character at i follows a backslash that escapes it
IsEscaped(text, i) == BackslashesBefore(text, i) % 2 = 1

\* the quotes that open or close a string
StringQuotes(text) == { i \in 1..Len(text) : text[i] = Quote /\ ~IsEscaped(text, i) }

\* the characters of the string that the quote at open opens, the next of quotes
\* closing it; an escape JSON does not know, or a line feed, is a syntax error
StringFrom(text, quotes, open) ==
    LET close == CHOOSE c \in quotes : c > open /\ \A d \in quotes : d > open => c <= d
        inside == SubSeq(text, open + 1, close - 1)
        kept == { j \in 1..Len(inside) :
                    ~(inside[j] = Backslash /\ ~IsEscaped(inside, j)) }
    IN  IF \E j \in kept :
               \/ inside[j] = NewLine
               \/ IsEscaped(inside, j) /\ inside[j] \notin {Quote, Backslash, "/", "n"}
        THEN [kind |-> "error", text |-> <<>>]
        ELSE [kind |-> "string",
              text |-> [k \in 1..Cardinality(kept) |->
                          LET j == Ascending(inside, kept)[k] IN
                          IF IsEscaped(inside, j) /\ inside[j] = "n" THEN NewLine
                          ELSE inside[j]]]

Punctuation == {"[", "]", "{", "}", ":", Comma}

\* the tokens that start at the positions of starts
TokensAt(text, quotes, starts) ==
    [k \in 1..Len(starts) |->
        IF text[starts[k]] = Quote THEN StringFrom(text, quotes, starts[k])
        ELSE [kind |-> text[starts[k]], text |-> <<>>]]

\* the quotes of a text and the positions outside its strings, the quotes apart
Layout(text, quotes) ==
    LET before == [i \in 1..Len(text) |-> Cardinality({ q \in quotes : q < i })] IN
    [opening |-> { q \in quotes : before[q] % 2 = 0 },
     outside |-> { i \in 1..Len(text) : i \notin quotes /\ before[i] % 2 = 0 }]

\* the punctuation marks and the strings of a text, in their order
Tokens(text) ==
    LET quotes == StringQuotes(text)
        layout == Layout(text, quotes)
        marks == { i \in layout.outside : text[i] \in Punctuation }
        toks == TokensAt(text, quotes, Ascending(text, marks \cup layout.opening))
    IN  IF \/ Cardinality(quotes) % 2 = 1
           \/ \E i \in layout.outside : text[i] \notin Punctuation \cup {" ", NewLine}
        THEN SyntaxError
        ELSE IF \E k \in 1..Len(toks) : toks[k].kind = "error" THEN SyntaxError
        ELSE [ok |-> TRUE, value |-> toks]

KindAt(toks, i) == IF i \in 1..Len(toks) THEN toks[i].kind ELSE "end"

RECURSIVE ParseMembers(_, _, _)
\* the members of an object, from the token after "{" or after a comma
ParseMembers(toks, i, acc) ==
    IF /\ KindAt(toks, i) = "string"
       /\ KindAt(toks, i + 1) = ":"
       /\ KindAt(toks, i + 2) = "string"
    THEN LET more == Append(acc, [key |-> toks[i].text, value |-> toks[i + 2].text]) IN
         IF KindAt(toks, i + 3) = Comma THEN ParseMembers(toks, i + 4, more)
         ELSE IF KindAt(toks, i + 3) = "}"
              THEN [ok |-> TRUE, value |-> more, next |-> i + 4]
         ELSE [ok |-> FALSE, value |-> <<>>, next |-> i]
    ELSE [ok |-> FALSE, value |-> <<>>, next |-> i]

RECURSIVE ParseElements(_, _, _)
\* the objects of an array, from the token after "[" or after a comma
ParseElements(toks, i, acc) ==
    IF KindAt(toks, i) = "{"
    THEN LET obj == IF KindAt(toks, i + 1) = "}"
                    THEN [ok |-> TRUE, value |-> <<>>, next |-> i + 2]
                    ELSE ParseMembers(toks, i + 1, <<>>)
         IN  IF ~obj.ok THEN SyntaxError
             ELSE IF KindAt(toks, obj.next) = Comma
                  THEN ParseElements(toks, obj.next + 1, Append(acc, obj.value))
             ELSE IF KindAt(toks, obj.next) = "]" /\ obj.next = Len(toks)
                  THEN [ok |-> TRUE, value |-> Append(acc, obj.value)]
             ELSE SyntaxError
    ELSE SyntaxError

\* JSON.parse(text): the objects of the array, each the sequence of its members
JSONParse(text) ==
    LET toks == Tokens(text) IN
    IF ~toks.ok THEN SyntaxError
    ELSE IF KindAt(toks.value, 1) # "[" THEN SyntaxError
    ELSE IF KindAt(toks.value, 2) = "]" /\ Len(toks.value) = 2
         THEN [ok |-> TRUE, value |-> <<>>]
    ELSE ParseElements(toks.value, 2, <<>>)

\* C17: the text of a JSON export, parsed, is the sequence of the records
\* exported: as many objects, in the same order, each with the properties of its
\* record and their values.
C17_JsonRoundTrip ==
    download.type = "application/json"
        => JSONParse(download.content)
             = [ok |-> TRUE,
                value |-> [i \in 1..Len(exported.rows) |-> Entries(exported.rows[i])]]

\* C17 witness: a JSON export of two records, one with a quote in its value and
\* one with a backslash in its location.
C17_Witness ==
    /\ download.type = "application/json"
    /\ Len(exported.rows) = 2
    /\ \E i \in 1..2 : \E k \in 1..Len(exported.rows[i].value) :
           exported.rows[i].value[k] = Quote
    /\ \E i \in 1..2 : \E k \in 1..Len(exported.rows[i].location) :
           exported.rows[i].location[k] = Backslash


----------------------------------------------------------------------------
(* Properties of the writes (RecordsView.deleteRecord, DataCollectionForm) *)

\* the step in which a delete, or an insert, that the store refused comes to its
\* end
DeleteFails == deleteOp.pc = "deleting" /\ deleteOp'.outcome = "failed"
InsertFails == submitOp.pc = "inserting" /\ submitOp'.outcome = "failed"

\* C18: when the store refuses a delete or an insert, records is left as it was:
\* the failed delete removes no record from it and the failed insert adds none.
C18_FailedWriteLeavesRecords ==
    [][(DeleteFails \/ InsertFails) => records' = records]_vars

\* C18 witness: the store refused the delete of the first of two records loaded,
\* and both are still in records.
C18_Witness ==
    /\ deleteOp.pc = "idle"
    /\ deleteOp.outcome = "failed"
    /\ Len(records) = 2
    /\ records[1].id = deleteOp.id
    /\ Cardinality(table) = 2

\* C19: every failure of the store in the paths of the records is followed by an
\* error message on the screen: a failed load and a failed delete by one in the
\* records view, a failed insert by one in the form.
C19_StoreFailureShown ==
    /\ ErrorLoadingRecords \in consoleErrors => recordsViewMessage # None
    /\ deleteOp.outcome = "failed" => recordsViewMessage # None
    /\ submitOp.outcome = "failed" => formErrors.field = FailedToSave


----------------------------------------------------------------------------
(* C20 *)

\* the calls of one conversation whose invoke has not settled
InFlight(c) == { op \in chatOps : op.conversation = c /\ op.pc = "invoking" }

\* a submit event handled while isLoading
SubmitWhileLoading == submitted'.n # submitted.n /\ isLoading

\* C20: a conversation of the Chatbot has at most one assistant request in flight
\* at any time, and a submit event handled while isLoading is rejected: it appends
\* no message and makes no call of the resolver.
C20_OneRequestInFlight ==
    [][/\ \A op \in chatOps' : Cardinality(InFlight(op.conversation)') <= 1
       /\ SubmitWhileLoading =>
             /\ messages' = messages
             /\ invoked' = invoked
             /\ chatOps' = chatOps]_vars

\* C20 witness: text was typed while the request of the conversation was pending,
\* the submit event that followed was rejected, and the request is the only one.
C20_Witness ==
    /\ submitted.isLoading
    /\ ~submitted.accepted
    /\ Trim(inputValue) # <<>>
    /\ isLoading
    /\ Cardinality(InFlight(conversation)) = 1
    /\ invoked = 1


----------------------------------------------------------------------------
(* C21 *)

\* the inserts into chatbot_logs issued for one call of the resolver
InsertsOf(call) == { i \in DOMAIN chatLogInserts : chatLogInserts[i].call = call }

\* the assistant message a reply is shown as, line 214
Shown(response) == Message(FALSE, IF response = <<>> THEN Apology ELSE response)

\* C21: for each chat submission one insert of a Chat Log row is issued when the
\* resolver call has returned a reply, once the reply has been appended to the
\* conversation, with the submitted message, the reply of the resolver and the id
\* of the user; none is issued while the call is pending or when it has failed,
\* and the store holds no row but those inserted.
C21_ChatLogOncePerReply ==
    /\ \A call \in DOMAIN callHistory :
          /\ Cardinality(InsertsOf(call)) =
                IF callHistory[call].outcome = "replied" THEN 1 ELSE 0
          /\ \A i \in InsertsOf(call) :
                /\ chatLogInserts[i].message = callHistory[call].message
                /\ chatLogInserts[i].response = callHistory[call].response
                /\ chatLogInserts[i].user_id = Owner
    /\ \A i \in DOMAIN chatLogInserts : chatLogInserts[i].call \in DOMAIN callHistory
    /\ \A op \in chatOps :
          op.pc = "logging" /\ OnScreen(op) =>
             /\ messages[Len(messages)] = Shown(op.response)
             /\ messages[Len(messages) - 1] = Message(TRUE, op.message)
    /\ \A j \in DOMAIN chatbotLogs :
          /\ \E i \in DOMAIN chatLogInserts : chatLogInserts[i] = chatbotLogs[j]
          /\ \A k \in DOMAIN chatbotLogs : chatbotLogs[k].call = chatbotLogs[j].call => k = j

\* C21 witness: one call has failed and a later one has returned a reply; the
\* only row of the Chat Log is that of the second.
C21_Witness ==
    /\ Len(callHistory) = 2
    /\ callHistory[1].outcome = "failed"
    /\ callHistory[2].outcome = "replied"
    /\ callHistory[2].response = Answer
    /\ Len(chatbotLogs) = 1
    /\ chatbotLogs[1].call = 2
    /\ chatbotLogs[1].message = <<"p", "H", "?">>


----------------------------------------------------------------------------
(* C23 *)

\* the entry a step adds to activity_logs
Added == activityLogs'[Len(activityLogs')]

\* C23: the activity log only grows, by one entry at a time; a DATA_ENTRY entry is
\* added only once the insert of its record has succeeded (the row is in the
\* store), a DATA_DELETE entry only once the delete of its record has succeeded
\* (the row is gone from the store), and a step in which a write of a record
\* fails adds none.
C23_ActivityLogAppendOnly ==
    [][/\ \/ activityLogs' = activityLogs
          \/ /\ Len(activityLogs') = Len(activityLogs) + 1
             /\ SubSeq(activityLogs', 1, Len(activityLogs)) = activityLogs
             /\ Added.action = "DATA_ENTRY" =>
                   /\ submitOp.pc = "logging"
                   /\ Added.id = submitOp.row.id
                   /\ submitOp.row \in table
             /\ Added.action = "DATA_DELETE" =>
                   /\ deleteOp.pc = "logging"
                   /\ Added.id = deleteOp.id
                   /\ \A r \in table : r.id # deleteOp.id
       /\ (DeleteFails \/ InsertFails) => activityLogs' = activityLogs
       /\ deleteOp'.outcome = "failed" =>
             \A i \in DOMAIN activityLogs' :
                activityLogs'[i].action = "DATA_DELETE" => activityLogs'[i].id # deleteOp'.id
       /\ submitOp'.outcome = "failed" =>
             \A i \in DOMAIN activityLogs' :
                activityLogs'[i].action = "DATA_ENTRY" => activityLogs'[i].id # submitOp'.row.id
      ]_vars

\* C23 witness: a delete the store refused left no entry, and the delete of
\* another record that followed left its DATA_DELETE entry.
C23_Witness ==
    /\ consoleErrors = {ErrorDeletingRecord}
    /\ deleteOp.outcome = "deleted"
    /\ Len(activityLogs) = 1
    /\ activityLogs[1].action = "DATA_DELETE"
    /\ activityLogs[1].id = deleteOp.id
    /\ Cardinality(table) = 1
    /\ \A r \in table : r.id # deleteOp.id


----------------------------------------------------------------------------
(* C24 *)

\* the accepted submissions of the conversation on the screen, oldest first
CallsOfConversation ==
    SelectSeq(callHistory, LAMBDA c : c.conversation = conversation)

\* the assistant message that answers a call that is over
AnswerTo(c) ==
    IF c.outcome = "failed" THEN Message(FALSE, TroubleConnecting) ELSE Shown(c.response)

\* C24: the conversation is the greeting followed, for each accepted submission in
\* turn, by the user message and by one assistant message, the reply of the
\* resolver or the apology for the failed call; only the latest submission, while
\* its call is pending, has none yet.  Messages of a conversation are never removed
\* or reordered: each step leaves them as they were or adds one at the end.
C24_OneAssistantMessagePerSubmission ==
    [][/\ currentView' = "chatbot" =>
             LET calls == CallsOfConversation'
                 pending == calls # <<>> /\ calls[Len(calls)].outcome = "pending"
             IN  /\ Len(messages') = 1 + 2 * Len(calls) - (IF pending THEN 1 ELSE 0)
                 /\ messages'[1] = Message(FALSE, Greeting)
                 /\ \A k \in DOMAIN calls :
                       /\ messages'[2 * k] = Message(TRUE, calls[k].message)
                       /\ calls[k].outcome # "pending" =>
                             messages'[2 * k + 1] = AnswerTo(calls[k])
                       /\ calls[k].outcome = "pending" => k = Len(calls)
       /\ conversation' = conversation =>
             /\ Len(messages') \in {Len(messages), Len(messages) + 1}
             /\ SubSeq(messages', 1, Len(messages)) = messages
      ]_vars

\* C24 witness: two submissions were accepted, the call of the first failed and the
\* call of the second returned a reply whose Chat Log insert the store refused; the
\* conversation holds one assistant message for each.
C24_Witness ==
    /\ currentView = "chatbot"
    /\ conversation = 1
    /\ Len(callHistory) = 2
    /\ callHistory[1].outcome = "failed"
    /\ callHistory[2].outcome = "replied"
    /\ chatOps = {}
    /\ chatLogInserts # <<>>
    /\ chatbotLogs = <<>>
    /\ Len(messages) = 5
    /\ messages[3] = Message(FALSE, TroubleConnecting)
    /\ messages[5] = Message(FALSE, Answer)


----------------------------------------------------------------------------
(* C25 *)

\* the chat view is on the screen with a call pending
ChatbotBusy == currentView = "chatbot" /\ isLoading

\* C25: where every network call completes, a Chatbot that is loading comes back
\* to isLoading = false (unless the view is left first), whether the call of the
\* resolver returns a reply, returns an error or throws, and whether or not the
\* store takes the Chat Log row.
C25_LoadingEnds == ChatbotBusy ~> ~ChatbotBusy

\* C25 witness: a call failed, its submission was followed by another that was
\* accepted, whose Chat Log row the store refused; isLoading is false again.
C25_Witness ==
    /\ currentView = "chatbot"
    /\ ~isLoading
    /\ Len(callHistory) = 2
    /\ callHistory[1].outcome = "failed"
    /\ callHistory[2].outcome = "replied"
    /\ callHistory[2].conversation = conversation
    /\ chatOps = {}
    /\ chatbotLogs = <<>>
    /\ submitted.accepted
    /\ submitted.n = 2


----------------------------------------------------------------------------
(* C26 *)

\* whether a sequence of records holds the record of an id
Holds(recs, id) == \E i \in DOMAIN recs : recs[i].id = id

\* the user answers the confirm() of deleteRecord with Cancel
DeleteDeclined == deleteOp.pc = "idle" /\ deleteOp'.outcome = "declined"

\* C26: when a call of deleteRecord whose delete the store carried out is over, the
\* record is in neither records nor filteredRecords, whether or not the store took
\* the DATA_DELETE entry; when the user declines the confirmation no call of the
\* store is made and the store, records, filteredRecords and the activity log stay
\* as they were.
C26_DeletedRecordLeavesRecords ==
    [][/\ deleteOp'.outcome = "deleted" =>
             /\ ~Holds(records', deleteOp'.id)
             /\ ~Holds(filteredRecords', deleteOp'.id)
             /\ \A r \in table' : r.id # deleteOp'.id
       /\ DeleteDeclined =>
             /\ deleteOp'.pc = "idle"
             /\ UNCHANGED <<table, records, filteredRecords, activityLogs, consoleErrors>>
      ]_vars

\* C26 witness: the store deleted the first of two records and refused the
\* DATA_DELETE entry; records holds the other record only.
C26_Witness ==
    /\ deleteOp.outcome = "deleted"
    /\ activityLogs = <<>>
    /\ consoleErrors = {}
    /\ Len(records) = 1
    /\ ~Holds(records, deleteOp.id)
    /\ Cardinality(table) = 1


----------------------------------------------------------------------------
(* C27 *)

\* a step that makes an export of the records view
ExportMade == exported' # exported /\ download'.source = "exportFiltered"

\* C27: after each load, delete, edit of the search term or of a filter, and
\* clearFilters, filteredRecords is the filter of records under the criteria then
\* in force; it is no longer than records, it is records when no criterion is set,
\* a record whose delete is over is not in it, and exportFiltered exports it.
C27_FilteredRecordsFollowRecords ==
    [][/\ filteredRecords' = applyFilters(records', searchTerm', filters', tzOffset')
       /\ Len(filteredRecords') <= Len(records')
       /\ (searchTerm' = <<>> /\ filters' = EmptyFilters) => filteredRecords' = records'
       /\ deleteOp'.outcome = "deleted" => ~Holds(filteredRecords', deleteOp'.id)
       /\ ExportMade =>
             /\ exported' = Data(filteredRecords)
             /\ deleteOp.outcome = "deleted" =>
                   \A i \in DOMAIN exported'.rows : exported'.rows[i].id # deleteOp.id
      ]_vars

\* C27 witness: of two records loaded under a field filter that keeps both, one
\* was deleted; the other is what the view shows and what was exported after.
C27_Witness ==
    /\ deleteOp.outcome = "deleted"
    /\ filters.field # <<>>
    /\ Len(records) = 1
    /\ filteredRecords = records
    /\ download.source = "exportFiltered"
    /\ exported = Data(records)
    /\ Cardinality(table) = 1


----------------------------------------------------------------------------
(* C28 *)

\* initAuth has run to its end and the listener has been notified at least once
AllProcessed == initAuth.pc = "done" /\ notified.count > 0

\* C28: once the getSession of initAuth and the auth-change notifications have
\* all been processed, session and user of a mounted AuthProvider are those of the
\* latest notification: a getSession that resolves late does not put an older
\* session over a newer one.
C28_LatestNotificationWins ==
    (authPc = "mounted" /\ AllProcessed) =>
        /\ session = notified.session
        /\ user = userOf(notified.session)

\* after the cleanup of the effect no setter of AuthProvider is called
NoUpdateAfterUnmount ==
    [][authPc = "unmounted" => UNCHANGED <<user, session, authLoading>>]_vars

----------------------------------------------------------------------------
(* C29 *)

\* what AppContent has on the screen
OnTheScreen == AppContentShows(authLoading, user, currentView)

\* C29: AppContent shows a data view only when auth loading is false and a user is
\* signed in; while loading it shows the spinner, and with no user the AuthForm,
\* whatever currentView is; so once a notification has set user to null, no data
\* view is on the screen.
C29_DataViewsNeedUser ==
    [][/\ OnTheScreen' \in DataViews => (~authLoading' /\ user' # NoUser)
       /\ authLoading' => OnTheScreen' = "spinner"
       /\ (~authLoading' /\ user' = NoUser) => OnTheScreen' = "AuthForm"
       /\ (user # NoUser /\ user' = NoUser) => OnTheScreen' \notin DataViews
      ]_vars

\* C29 witness: the user went to the records view and was then signed out; the
\* AuthForm is on the screen while currentView is still 'records'.
C29_Witness ==
    /\ currentView = "records"
    /\ notified.count = 2
    /\ notified.session = NoSession
    /\ user = NoUser
    /\ ~authLoading
    /\ OnTheScreen = "AuthForm"


----------------------------------------------------------------------------
(* C30 *)

\* a step of handleSubmit: the submit event, or the end of its await
HandleSubmitStep == authSubmit' # authSubmit

\* C30: a sign-up whose username is empty once trimmed makes no call of signUp and
\* shows 'Username is required'; whenever a call of handleSubmit is over and the
\* form is on the screen its loading flag is false; an error thrown by signIn or
\* signUp has its message shown (the stock message when it has none); and no step
\* of handleSubmit changes the form data.
C30_AuthFormSubmitEnds ==
    [][/\ (HandleSubmitStep /\ authSubmit.pc = "idle"
              /\ ~isLogin /\ Trim(authFormData.username) = <<>>) =>
             /\ authSubmit'.pc = "idle"
             /\ authSubmit'.calls = authSubmit.calls
             /\ authError' = UsernameRequired
       /\ (authSubmit'.pc = "idle"
              /\ AppContentShows(authLoading', user', currentView') = "AuthForm") =>
             ~authFormLoading'
       /\ (HandleSubmitStep /\ authSubmit'.outcome = "thrown") =>
             /\ authError' # ""
             /\ \E message \in AuthErrorMessages :
                   authError' = IF thrownMessage(configured, message) = ""
                                THEN AnErrorOccurred
                                ELSE thrownMessage(configured, message)
       /\ HandleSubmitStep => authFormData' = authFormData
      ]_vars

\* C30 witness: a sign-up with a blank username was rejected without a call, and
\* the sign-in that followed threw; the form shows the message, is not loading
\* and still holds what was entered.
C30_Witness ==
    /\ authSubmit.n = 2
    /\ authSubmit.calls = 1
    /\ authSubmit.outcome = "thrown"
    /\ authSubmit.mode = "signIn"
    /\ authError = "Invalid login credentials"
    /\ ~authFormLoading
    /\ authFormData = authSubmit.entered
    /\ authFormData.email # <<>>


----------------------------------------------------------------------------
(* C22 *)

FormFieldNames == {"field", "value", "location"}

\* handleSubmit has sent an insert to the store
InsertIssued == submitOp.pc = "idle" /\ submitOp'.pc = "inserting"

\* handleSubmit has returned at line 74 or 75
SubmitTurnedDown == submitOp'.outcome \in {"invalid", "nouser"} /\ submitOp' # submitOp

\* C22: the record of every insert the form sends has field, value and location
\* non-empty and trimmed, equal to the trimmed texts entered, and the id of the
\* signed-in user as owner; a submit with a text that is empty once trimmed, or
\* without a user, sends nothing, sets the message of each such field, and leaves
\* the form not loading with the texts as entered.
C22_FormSendsValidRecords ==
    [][/\ InsertIssued =>
             /\ \A name \in FormFieldNames :
                   /\ submitOp'.row[name] # <<>>
                   /\ submitOp'.row[name] = Trim(submitOp'.row[name])
                   /\ submitOp'.row[name] = Trim(formData[name])
             /\ user # NoUser
             /\ submitOp'.owner = user
       /\ (submitOp.pc = "idle"
              /\ (submitOp' # submitOp \/ formErrors' # formErrors)
              /\ formData' = formData
              /\ \/ \E name \in FormFieldNames : Trim(formData[name]) = <<>>
                 \/ user = NoUser) =>
             /\ ~InsertIssued
             /\ table' = table
       /\ SubmitTurnedDown =>
             /\ submitOp'.pc = "idle"
             /\ table' = table
             /\ \A name \in FormFieldNames :
                   (formErrors'[name] # None) <=> (Trim(formData[name]) = <<>>)
             /\ ~formLoading'
             /\ formData' = formData
      ]_vars

\* C22 witness: the field was entered with a leading space and the insert in
\* flight carries it trimmed, with the id of the signed-in user.
C22_Witness ==
    /\ submitOp.pc = "inserting"
    /\ submitOp.entered.field = <<" ", "p", "H">>
    /\ submitOp.row.field = <<"p", "H">>
    /\ submitOp.row.value = Seven
    /\ submitOp.row.location = North
    /\ submitOp.owner = Owner
    /\ formLoading

====
